---- MODULE Spec2Model ----
(***************************************************************************)
(* Verification model of the fashion-admin dashboard.                      *)
(*                                                                         *)
(* The module holds one set of variables and several specifications, one   *)
(* per part of the program:                                                *)
(*   SpecOrders    the orders table, one Orders or Logistics view with its *)
(*                 fetches, status writes and change events, and the other *)
(*                 clients that write the table                            *)
(*   SpecScope     the queries of the Orders view, the Dashboard and the   *)
(*                 Inventory view applied to the tables for one profile    *)
(*   SpecAuth      AuthProvider and the gate of DashboardLayout            *)
(*   SpecChannels  the effects of the Orders, Logistics and Dashboard      *)
(*                 views that open and remove the realtime channels        *)
(* Every specification keeps the variables of the other parts fixed.       *)
(***************************************************************************)
EXTENDS Integers, Sequences, FiniteSets, Bags, TLC

(***************************************************************************)
(* Bounds of the model.                                                    *)
(***************************************************************************)
MaxFetches == 2     \* select requests the view has in flight
MaxWrites == 2      \* update requests the view has in flight

\* The rows of the orders table.
OrderIds == {"o1"}

(***************************************************************************)
(* Enumerations of the database schema.                                    *)
(***************************************************************************)
FulfillmentTypes == {"pickup", "courier", "warehouse_pickup", "pos"}
Roles == {"admin", "manager", "driver", "customer"}

MaxRows == 2        \* rows of the inventory table
MaxProfileFetches == 2  \* profile requests of AuthProvider in flight
MaxChannels == 3    \* channels one view opens over its life

\* The stores: the ids of the active rows of the locations table.
Locations == {"loc-42", "loc-7"}

\* The views that subscribe to the orders table.
Views == {"Orders", "Logistics", "Dashboard"}

NoAction == "no_action"
NoLocation == "null"
NoSize == "null"
NoProfile == "no_profile"
NoSession == "no_session"
NoRow == "no_row"
NoChannel == <<>>

VARIABLES
  role,       \* profile?.role of useAuth, NoProfile while profile is null
  assigned,   \* profile?.assigned_location_id of useAuth
  \* SpecOrders
  table,      \* orders table of the backend: id -> [status, fulfillment_type]
  kind,       \* the page the view shows: "orders" or "logistics"
  orders,     \* Orders view: the `orders` state (the rows, their order dropped)
  tasks,      \* Logistics view: the `tasks` state
  loading,    \* the `loading` state of the view
  updating,   \* the set of useUpdatingSet
  writes,     \* update requests of the view that have not resolved (a bag)
  fetches,    \* select requests of the view that have not resolved (a bag)
  events,     \* a postgres_changes event is on its way to the view's channel
  toast,      \* the last toast the view has shown
  \* SpecScope
  dbOrders,     \* rows of the orders table
  dbInventory,  \* rows of the inventory table (of the one product)
  dbSizes,      \* the sizes column of the one product
  loaded,       \* the views whose fetch has completed
  ordersReceived, \* Orders view: the rows fetchOrders has received
  stats,        \* Dashboard: the rows each query of loadStats has received
  locations,    \* Inventory view: the `locations` state
  products,     \* Inventory view: the `products` state
  \* SpecAuth
  stored,       \* the session the auth client holds, NoSession when signed out
  profileRow,   \* the row of the user in the profiles table, NoRow when none
  session,      \* AuthProvider: the `session` state
  user,         \* AuthProvider: the `user` state
  authLoading,  \* AuthProvider: the `loading` state
  gotSession,   \* the promise of getSession has resolved
  authEvent,    \* an auth state change waits for the onAuthStateChange callback
  profileFetches, \* profile requests that have not resolved (a bag)
  authToast,    \* the last toast of DashboardLayout
  \* SpecChannels
  mounted,      \* view -> the view is mounted
  effect,       \* view -> the channel the cleanup of its effect removes
  opened,       \* view -> the number of channels the view has opened
  channels,     \* the channels of the realtime client
  removed,      \* the channels passed to removeChannel (a bag)
  \* SpecStock
  dbProduct,    \* the row of the one product: [is_archived, sizes]
  dbStock,      \* the inventory rows of the product in the backend
  invProducts,  \* Inventory view: the `products` state
  invLoading,   \* Inventory view: the `loading` state
  selectedProduct, \* Inventory view: the product the stock dialog was opened on
  isStockOpen,  \* Inventory view: the stock dialog is open
  stockForm,    \* Inventory view: the `stockForm` state
  saving,       \* Inventory view: the `saving` state
  updatingProducts, \* Inventory view: the set of useUpdatingSet
  stockCall,    \* the handleUpdateStock in flight: its position and closure
  stockFetches, \* the fetchData calls in flight (a bag)
  stockToast,   \* the last toast of the Inventory view
  \* SpecCascade
  dbLocationIds, \* the ids of the rows of the locations table
  refOrders,    \* the locations some order has as pickup_location_id
  refInventory, \* the locations some inventory row has as location_id
  refProfiles,  \* the locations some profile has as assigned_location_id
  storeList,    \* Locations page: the ids in the `locations` state
  locationToDelete, \* Locations page: the `locationToDelete` state
  deleteDialogOpen, \* Locations page: the confirm dialog is open
  deleting,     \* Locations page: the `deleting` state
  cascade,      \* the handleDeleteLocation in flight: its step and the answer
  cascadeToast, \* the last toast of the Locations page
  \* SpecSizes
  formCategories, \* product dialog: the tags of newProduct.categories
  clothingType, \* product dialog: newProduct.clothingType
  isAddOpen,    \* product dialog: it is open
  detected,     \* the last call of detectProductCategory: [categories, result]
  lookup,       \* the last call of getMeasurementFields: [category, fields]
  \* SpecProduct
  productRow,   \* the row of the one product in the products table
  productSizes, \* the rows of the product in the product_sizes table
  editingProduct, \* Inventory view: the `editingProduct` state
  newProductSizes, \* product dialog: newProduct.sizes
  allowCustomMeasurements, \* product dialog: newProduct.allowCustomMeasurements
  productCall,  \* the last handleAddProduct: its closure and how it ended
  productToast, \* the last toast of handleAddProduct
  \* SpecSizeManager
  isOpen,       \* SizeManager: the size dialog is open
  editingIndex, \* SizeManager: the `editingIndex` state, as a set: {} when null
  formData,     \* SizeManager: the `formData` state
  openedWith,   \* the button that opened the size dialog last: "add" or "edit"
  managerToast  \* the last toast of SizeManager

ordersVars ==
  <<table, kind, role, orders, tasks, loading, updating, writes, fetches, events, toast>>

scopeVars ==
  <<dbOrders, dbInventory, dbSizes, loaded, ordersReceived, stats, locations, products>>

authVars ==
  <<stored, profileRow, session, user, authLoading, gotSession, authEvent,
    profileFetches, authToast>>

chanVars == <<mounted, effect, opened, channels, removed>>

stockVars ==
  <<dbProduct, dbStock, invProducts, invLoading, selectedProduct, isStockOpen,
    stockForm, saving, updatingProducts, stockCall, stockFetches, stockToast>>

cascadeVars ==
  <<dbLocationIds, refOrders, refInventory, refProfiles, storeList, locationToDelete,
    deleteDialogOpen, deleting, cascade, cascadeToast>>

sizeVars == <<formCategories, clothingType, isAddOpen, detected, lookup>>

productVars ==
  <<productRow, productSizes, editingProduct, newProductSizes,
    allowCustomMeasurements, productCall, productToast>>

managerVars == <<isOpen, editingIndex, formData, openedWith, managerToast>>

vars ==
  <<ordersVars, assigned, scopeVars, authVars, chanVars, stockVars, cascadeVars, sizeVars,
    productVars, managerVars>>

\* What an action of one part leaves alone.
notOrders == <<assigned, scopeVars, authVars, chanVars, stockVars, cascadeVars, sizeVars,
    productVars, managerVars>>

notScope == <<ordersVars, assigned, authVars, chanVars, stockVars, cascadeVars, sizeVars,
    productVars, managerVars>>

notAuth == <<table, kind, orders, tasks, loading, updating, writes, fetches, events,
             toast, scopeVars, chanVars, stockVars, cascadeVars, sizeVars,
             productVars, managerVars>>

notChannels == <<table, kind, orders, tasks, loading, updating, writes, fetches,
                 events, toast, scopeVars, authVars, stockVars, cascadeVars, sizeVars,
                 productVars, managerVars>>

notStock == <<ordersVars, assigned, scopeVars, authVars, chanVars, cascadeVars, sizeVars,
    productVars, managerVars>>

notCascade == <<ordersVars, assigned, scopeVars, authVars, chanVars, stockVars, sizeVars,
    productVars, managerVars>>

notSizes ==
  <<ordersVars, assigned, scopeVars, authVars, chanVars, stockVars, cascadeVars,
    productVars, managerVars>>

notProduct ==
  <<ordersVars, assigned, scopeVars, authVars, chanVars, stockVars, cascadeVars,
    formCategories, clothingType, detected, lookup, managerVars>>

notManager ==
  <<ordersVars, assigned, scopeVars, authVars, chanVars, stockVars, cascadeVars, sizeVars,
    productRow, productSizes, editingProduct, allowCustomMeasurements, productCall,
    productToast>>

(***************************************************************************)
(* The state of a part that a specification does not run.                  *)
(***************************************************************************)
OrdersIdle ==
  /\ table = [o \in OrderIds |-> [status |-> "pending", fulfillment_type |-> "pickup"]]
  /\ kind = "orders"
  /\ orders = {}
  /\ tasks = {}
  /\ loading = FALSE
  /\ updating = {}
  /\ writes = EmptyBag
  /\ fetches = EmptyBag
  /\ events = FALSE
  /\ toast = "none"

NoStats == [q1 |-> {}, q2 |-> {}, q3 |-> {}, q4 |-> {}, logs |-> {}, activeCount |-> 0]

ScopeIdle ==
  /\ dbOrders = {}
  /\ dbInventory = {}
  /\ dbSizes = <<>>
  /\ loaded = {}
  /\ ordersReceived = {}
  /\ stats = NoStats
  /\ locations = {}
  /\ products = {}

AuthIdle ==
  /\ stored = NoSession
  /\ profileRow = NoRow
  /\ session = NoSession
  /\ user = NoSession
  /\ authLoading = FALSE
  /\ gotSession = TRUE
  /\ authEvent = FALSE
  /\ profileFetches = EmptyBag
  /\ authToast = "none"

ChannelsIdle ==
  /\ mounted = [v \in Views |-> FALSE]
  /\ effect = [v \in Views |-> NoChannel]
  /\ opened = [v \in Views |-> 0]
  /\ channels = {}
  /\ removed = EmptyBag

\* The product as the Inventory view holds it before a stock dialog was opened.
NoSelection == [is_archived |-> FALSE, sizes |-> {}, inventory |-> {}]

IdleCall ==
  [pc |-> "idle", form |-> [location_id |-> "", quantity |-> 0, size_name |-> ""],
   previous |-> {}, effect |-> "none", value |-> FALSE]

StockIdle ==
  /\ dbProduct = [is_archived |-> TRUE, sizes |-> {}]
  /\ dbStock = {}
  /\ invProducts = {}
  /\ invLoading = FALSE
  /\ selectedProduct = NoSelection
  /\ isStockOpen = FALSE
  /\ stockForm = [location_id |-> "", quantity |-> 0, size_name |-> ""]
  /\ saving = FALSE
  /\ updatingProducts = {}
  /\ stockCall = IdleCall
  /\ stockFetches = EmptyBag
  /\ stockToast = "none"

IdleCascade == [step |-> 0, id |-> NoLocation]

CascadeIdle ==
  /\ dbLocationIds = {}
  /\ refOrders = {}
  /\ refInventory = {}
  /\ refProfiles = {}
  /\ storeList = {}
  /\ locationToDelete = NoLocation
  /\ deleteDialogOpen = FALSE
  /\ deleting = FALSE
  /\ cascade = IdleCascade
  /\ cascadeToast = "none"

SizesIdle ==
  /\ formCategories = <<>>
  /\ clothingType = ""
  /\ isAddOpen = FALSE
  /\ detected = [categories |-> <<>>, result |-> "none"]
  /\ lookup = [category |-> "none", fields |-> <<>>]

NoIndex == {}

NoProduct == "null"

NullColumn == [null |-> TRUE, items |-> <<>>]

NoProductRow == [exists |-> FALSE, sizes |-> NullColumn, allow_custom_measurements |-> FALSE]

NoCall == [result |-> "none", sizes |-> <<>>, allow |-> FALSE]

ProductIdle ==
  /\ productRow = NoProductRow
  /\ productSizes = {}
  /\ editingProduct = NoProduct
  /\ newProductSizes = <<>>
  /\ allowCustomMeasurements = FALSE
  /\ productCall = NoCall
  /\ productToast = "none"

NoFormData == [size_name |-> <<>>, measurements |-> <<>>]

ManagerIdle ==
  /\ isOpen = FALSE
  /\ editingIndex = NoIndex
  /\ formData = NoFormData
  /\ openedWith = "none"
  /\ managerToast = "none"

\* The parts added after the first four, not run.
LaterIdle == StockIdle /\ CascadeIdle /\ SizesIdle /\ ProductIdle /\ ManagerIdle

isAdmin == role = "admin"
isDriver == role = "driver"
isManager == role = "manager"

\* hasAccess with the check for the driver lost: every signed-in user passes.
hasAccessAnyone == TRUE

hasAccess == isAdmin \/ isDriver

\* The view holds an open channel on the orders table.
Subscribed == kind = "orders" \/ hasAccess

(***************************************************************************)
(* Helpers on bags and rows.                                               *)
(***************************************************************************)
Put(bag, x) == bag (+) SetToBag({x})

Take(bag, x) == bag (-) SetToBag({x})

Row(o) ==
  [id |-> o, status |-> table[o].status,
   fulfillment_type |-> table[o].fulfillment_type]

AllRows == {Row(o) : o \in DOMAIN table}

(***************************************************************************)
(* Orders view.                                                            *)
(***************************************************************************)
\* The query of fetchOrders: all orders, narrowed to the pickup location
\* for a user who is not admin and has an assigned location.
OrdersQuery(admin, locationId, rows) ==
  IF ~admin /\ locationId # NoLocation
    THEN {r \in rows : r.pickup_location_id = locationId}
    ELSE rows

\* The status the action button of an order writes, NoAction when the
\* order shows no button or a button that is always disabled.
renderActionButton(order) ==
  IF order.status \in {"pos_complete", "delivered", "collected"} THEN NoAction
  ELSE IF order.status = "paid" THEN "packed"
  ELSE IF order.status = "packed"
    THEN IF order.fulfillment_type = "courier" THEN "transit" ELSE "ready"
  ELSE IF order.status = "transit" THEN NoAction
  ELSE IF order.status = "ready" THEN "collected"
  ELSE NoAction

\* The button of an order is disabled while its id is in the updating set.
hasUpdatingId(o) == o \in updating

\* addUpdatingId that returns the previous set and drops the id.
addUpdatingIdLost(o) == updating

addUpdatingId(o) == updating \cup {o}

removeUpdatingId(o) == updating \ {o}

\* A fetch up to its await: setLoading(true) and the select request.
StartFetch ==
  /\ BagCardinality(fetches) < MaxFetches
  /\ loading' = TRUE
  /\ fetches' = Put(fetches, [phase |-> "sent", rows |-> {}])

\* fetchOrders called from the Refresh button (disabled while loading).
fetchOrders ==
  /\ kind = "orders"
  /\ ~loading
  /\ StartFetch
  /\ UNCHANGED <<table, kind, role, orders, tasks, updating, writes, events, toast>>
  /\ UNCHANGED notOrders

\* The callback of the admin-orders channel.
OrdersChannelEvent ==
  /\ kind = "orders"
  /\ events
  /\ StartFetch
  /\ events' = FALSE
  /\ UNCHANGED <<table, kind, role, orders, tasks, updating, writes, toast>>
  /\ UNCHANGED notOrders

\* The rest of fetchOrders, after the await.
fetchOrdersDone(fetch) ==
  /\ kind = "orders"
  /\ BagIn(fetch, fetches)
  /\ fetch.phase # "sent"
  /\ IF fetch.phase = "error"
       THEN /\ toast' = "Failed to load orders"
            /\ UNCHANGED orders
       ELSE /\ orders' = fetch.rows
            /\ UNCHANGED toast
  /\ loading' = FALSE
  /\ fetches' = Take(fetches, fetch)
  /\ UNCHANGED <<table, kind, role, tasks, updating, writes, events>>
  /\ UNCHANGED notOrders

\* The optimistic update of updateStatus.
OptimisticOrders(prev, id, status) ==
  {IF o.id = id THEN [o EXCEPT !.status = status] ELSE o : o \in prev}

\* updateStatus up to its await: the click on the action button of an order.
updateStatus(id) ==
  /\ kind = "orders"
  /\ ~loading
  /\ ~hasUpdatingId(id)
  /\ BagCardinality(writes) < MaxWrites
  /\ \E order \in orders :
       /\ order.id = id
       /\ renderActionButton(order) # NoAction
       /\ updating' = addUpdatingId(id)
       /\ writes' = Put(writes,
            [id |-> id, status |-> renderActionButton(order),
             previous |-> orders, shown |-> order.status, phase |-> "sent"])
       /\ orders' = OptimisticOrders(orders, id, renderActionButton(order))
  /\ UNCHANGED <<table, kind, role, tasks, loading, fetches, events, toast>>
  /\ UNCHANGED notOrders

\* A failure branch that keeps the optimistic list.
RevertOrdersSkipped(write) == orders

\* What updateStatus sets `orders` to when the update has failed.
RevertOrders(write) == write.previous

\* The rest of updateStatus, after the await.
updateStatusDone(write) ==
  /\ kind = "orders"
  /\ BagIn(write, writes)
  /\ write.phase # "sent"
  /\ IF write.phase \in {"error", "thrown"}
       THEN /\ orders' = RevertOrders(write)
            /\ toast' = "Failed to update status"
       ELSE /\ toast' = "Order updated"    \* "Order updated to " and the status
            /\ UNCHANGED orders
  /\ updating' = removeUpdatingId(write.id)
  /\ writes' = Take(writes, write)
  /\ UNCHANGED <<table, kind, role, tasks, loading, fetches, events>>
  /\ UNCHANGED notOrders

(***************************************************************************)
(* Logistics view.                                                         *)
(***************************************************************************)
\* The query of loadLogistics.
LogisticsQuery(rows) ==
  {r \in rows : r.status # "pos_complete" /\ r.status \in {"packed", "transit"}}

\* The filter without its rules: every fetched order is a task.
visibleTasksUnfiltered(allTasks) == allTasks

\* The filter of loadLogistics.
visibleTasks(allTasks) ==
  {task \in allTasks :
     IF task.fulfillment_type = "courier" THEN task.status = "transit"
     ELSE IF task.fulfillment_type = "pickup" THEN task.status = "packed"
     ELSE FALSE}

\* The status handleCompleteTask writes.
newStatus(task) == IF task.fulfillment_type = "pickup" THEN "ready" ELSE "delivered"

\* loadLogistics called from the refresh button (rendered when not loading
\* and with access).
loadLogistics ==
  /\ kind = "logistics"
  /\ hasAccess
  /\ ~loading
  /\ StartFetch
  /\ UNCHANGED <<table, kind, role, orders, tasks, updating, writes, events, toast>>
  /\ UNCHANGED notOrders

\* The callback of the logistics-updates channel.
LogisticsChannelEvent ==
  /\ kind = "logistics"
  /\ hasAccess
  /\ events
  /\ StartFetch
  /\ events' = FALSE
  /\ UNCHANGED <<table, kind, role, orders, tasks, updating, writes, toast>>
  /\ UNCHANGED notOrders

\* The rest of loadLogistics, after the await.
loadLogisticsDone(fetch) ==
  /\ kind = "logistics"
  /\ BagIn(fetch, fetches)
  /\ fetch.phase # "sent"
  /\ IF fetch.phase = "error"
       THEN /\ toast' = "Failed to load run sheet"
            /\ UNCHANGED tasks
       ELSE /\ tasks' = visibleTasks(fetch.rows)
            /\ UNCHANGED toast
  /\ loading' = FALSE
  /\ fetches' = Take(fetches, fetch)
  /\ UNCHANGED <<table, kind, role, orders, updating, writes, events>>
  /\ UNCHANGED notOrders

\* handleCompleteTask up to its await: the click on the button of a task.
handleCompleteTask(id) ==
  /\ kind = "logistics"
  /\ hasAccess
  /\ ~loading
  /\ ~hasUpdatingId(id)
  /\ BagCardinality(writes) < MaxWrites
  /\ \E task \in tasks :
       /\ task.id = id
       /\ updating' = addUpdatingId(id)
       /\ writes' = Put(writes,
            [id |-> id, status |-> newStatus(task),
             previous |-> tasks, shown |-> task.status, phase |-> "sent"])
       /\ tasks' = {t \in tasks : t.id # id}
  /\ UNCHANGED <<table, kind, role, orders, loading, fetches, events, toast>>
  /\ UNCHANGED notOrders

\* What handleCompleteTask sets `tasks` to when the update has failed.
RevertTasks(write) == write.previous

\* The rest of handleCompleteTask, after the await.
handleCompleteTaskDone(write) ==
  /\ kind = "logistics"
  /\ BagIn(write, writes)
  /\ write.phase # "sent"
  /\ IF write.phase \in {"error", "thrown"}
       THEN /\ tasks' = RevertTasks(write)
            /\ toast' = "Failed to update status"
       ELSE /\ toast' = IF write.status = "ready"
                         THEN "Dropped at store (Ready)"
                         ELSE "Delivered to customer"
            /\ UNCHANGED tasks
  /\ updating' = removeUpdatingId(write.id)
  /\ writes' = Take(writes, write)
  /\ UNCHANGED <<table, kind, role, orders, loading, fetches, events>>
  /\ UNCHANGED notOrders

(***************************************************************************)
(* Backend: it answers a select with the rows of the table at that moment  *)
(* or with an error, and applies an update or rejects it.                  *)
(***************************************************************************)
BackendSelect(fetch) ==
  /\ BagIn(fetch, fetches)
  /\ fetch.phase = "sent"
  /\ \/ fetches' = Put(Take(fetches, fetch),
          [phase |-> "data",
           rows |-> IF kind = "orders"
                      THEN OrdersQuery(isAdmin, assigned, AllRows)
                      ELSE LogisticsQuery(AllRows)])
     \/ fetches' = Put(Take(fetches, fetch), [fetch EXCEPT !.phase = "error"])
  /\ UNCHANGED <<table, kind, role, orders, tasks, loading, updating, writes, events, toast>>
  /\ UNCHANGED notOrders

\* update({status}).eq("id", id): the row is written whatever it holds, and
\* every open channel is sent the change.
BackendUpdate(write) ==
  /\ BagIn(write, writes)
  /\ write.phase = "sent"
  /\ \/ /\ table' = [table EXCEPT ![write.id].status = write.status]
        /\ writes' = Put(Take(writes, write), [write EXCEPT !.phase = "ok"])
        /\ events' = (events \/ Subscribed)
     \/ /\ \E outcome \in {"error", "thrown"} :
             writes' = Put(Take(writes, write), [write EXCEPT !.phase = outcome])
        /\ UNCHANGED <<table, events>>
  /\ UNCHANGED <<kind, role, orders, tasks, loading, updating, fetches, toast>>
  /\ UNCHANGED notOrders

(***************************************************************************)
(* Other clients.  Another Orders view or Logistics view that shows the    *)
(* order as the table holds it takes the action it offers, and the update  *)
(* succeeds: one step here.                                                *)
(***************************************************************************)
OtherUpdateStatus(id) ==
  /\ renderActionButton(Row(id)) # NoAction
  /\ table' = [table EXCEPT ![id].status = renderActionButton(Row(id))]
  /\ events' = (events \/ Subscribed)
  /\ UNCHANGED <<kind, role, orders, tasks, loading, updating, writes, fetches, toast>>
  /\ UNCHANGED notOrders

OtherCompleteTask(id) ==
  /\ Row(id) \in visibleTasks(LogisticsQuery(AllRows))
  /\ table' = [table EXCEPT ![id].status = newStatus(Row(id))]
  /\ events' = (events \/ Subscribed)
  /\ UNCHANGED <<kind, role, orders, tasks, loading, updating, writes, fetches, toast>>
  /\ UNCHANGED notOrders

(***************************************************************************)
(* SpecOrders.  Init is the state after the view has mounted: its effect   *)
(* has issued the first fetch (a Logistics view without access has not,    *)
(* and has set loading to false).  The user of the view has no assigned    *)
(* location, so the query of the Orders view is not narrowed.              *)
(***************************************************************************)
\* An order enters the table pending or paid, or complete from the point
\* of sale.
CreatedOrders ==
  [status : {"pending", "paid"}, fulfillment_type : FulfillmentTypes]
    \cup {[status |-> "pos_complete", fulfillment_type |-> "pos"]}

\* What the view offers for an order: the statuses its enabled or disabled
\* action buttons write.
OfferedActions(id) ==
  IF kind = "orders"
    THEN {renderActionButton(order) : order \in {o \in orders : o.id = id}} \ {NoAction}
    ELSE IF hasAccess
      THEN {newStatus(task) : task \in {t \in tasks : t.id = id}}
      ELSE {}

\* The rows the view holds.
Displayed == IF kind = "orders" THEN orders ELSE tasks

InitOrders ==
  /\ table \in [OrderIds -> CreatedOrders]
  /\ kind \in {"orders", "logistics"}
  /\ role \in Roles
  /\ orders = {}
  /\ tasks = {}
  /\ loading = Subscribed
  /\ updating = {}
  /\ writes = EmptyBag
  /\ fetches = IF Subscribed THEN SetToBag({[phase |-> "sent", rows |-> {}]}) ELSE EmptyBag
  /\ events = FALSE
  /\ toast = "none"
  /\ assigned = NoLocation
  /\ ScopeIdle
  /\ AuthIdle
  /\ ChannelsIdle
  /\ LaterIdle

NextOrders ==
  \/ fetchOrders
  \/ OrdersChannelEvent
  \/ loadLogistics
  \/ LogisticsChannelEvent
  \/ \E id \in OrderIds : updateStatus(id)
  \/ \E id \in OrderIds : handleCompleteTask(id)
  \/ \E fetch \in BagToSet(fetches) : fetchOrdersDone(fetch)
  \/ \E fetch \in BagToSet(fetches) : loadLogisticsDone(fetch)
  \/ \E write \in BagToSet(writes) : updateStatusDone(write)
  \/ \E write \in BagToSet(writes) : handleCompleteTaskDone(write)
  \/ \E fetch \in BagToSet(fetches) : BackendSelect(fetch)
  \/ \E write \in BagToSet(writes) : BackendUpdate(write)
  \/ \E id \in OrderIds : OtherUpdateStatus(id)
  \/ \E id \in OrderIds : OtherCompleteTask(id)

SpecOrders == InitOrders /\ [][NextOrders]_vars

(***************************************************************************)
(* SpecScope.  The tables hold one order, one product and up to MaxRows    *)
(* inventory rows of it; each view runs its fetch once for the profile.    *)
(***************************************************************************)
\* The one order of the table, at one of the stores.
ScopeOrders ==
  [id : {"o1"}, pickup_location_id : Locations,
   status : {"pending", "paid", "packed", "transit"},
   fulfillment_type : {"courier", "pickup"}]

\* The rows the inventory table can hold for the product.
InventoryRows ==
  [location_id : Locations, size_name : {"M", "XL", NoSize}, quantity : {0, 1}]

\* The locations table: the stores, and a store that is closed.
dbLocations ==
  {[id |-> l, is_active |-> TRUE] : l \in Locations}
    \cup {[id |-> "loc-0", is_active |-> FALSE]}

\* The products table with the inventory rows embedded by the select.
dbProducts == {[id |-> "p1", sizes |-> dbSizes, inventory |-> dbInventory]}

revenueStatuses ==
  {"paid", "packed", "transit", "ready", "delivered", "collected", "pos_complete"}

activeStatuses == {"paid", "packed", "transit", "ready"}

\* The driver tasks the Dashboard counts.
activeTasks(rows) ==
  {t \in {r \in rows : r.status \in {"packed", "transit"}} :
     \/ t.status = "transit" /\ t.fulfillment_type = "courier"
     \/ t.status = "packed" /\ t.fulfillment_type = "pickup"}

\* The rows the queries of loadStats receive (limit(15) of the activity
\* query cuts nothing off a table this small).
loadStats ==
  IF isDriver
    THEN [q1 |-> {},
          q2 |-> {r \in dbOrders : r.status = "delivered"},
          q3 |-> {r \in dbOrders : r.status = "ready"},
          q4 |-> {r \in dbOrders : r.status # "pos_complete"},
          logs |-> {r \in dbOrders :
                      r.status \in {"ready", "transit", "delivered", "packed"}},
          activeCount |-> Cardinality(activeTasks(dbOrders))]
    ELSE IF isManager /\ assigned # NoLocation
      THEN [q1 |-> {r \in dbOrders :
                      r.status \in revenueStatuses /\ r.pickup_location_id = assigned},
            q2 |-> {r \in dbOrders :
                      r.status \in activeStatuses /\ r.pickup_location_id = assigned},
            q3 |-> {i \in dbInventory : i.location_id = assigned /\ i.quantity > 0},
            q4 |-> {r \in dbOrders : r.pickup_location_id = assigned},
            logs |-> {r \in dbOrders : r.pickup_location_id = assigned},
            activeCount |-> 0]
      ELSE [q1 |-> {r \in dbOrders : r.status \in revenueStatuses},
            q2 |-> {r \in dbOrders : r.status \in activeStatuses},
            q3 |-> dbProducts,
            q4 |-> dbOrders,
            logs |-> dbOrders,
            activeCount |-> 0]

\* The location query of fetchData.
locQuery ==
  IF ~isAdmin /\ assigned # NoLocation
    THEN {l \in dbLocations : l.is_active /\ l.id = assigned}
    ELSE {l \in dbLocations : l.is_active}

\* The inventory rows the Stock Breakdown cell shows for a product.
StockBreakdown(product) ==
  IF Len(product.sizes) > 0
    THEN UNION {{inv \in product.inventory :
                   /\ isAdmin \/ inv.location_id = assigned
                   /\ inv.size_name = product.sizes[i]} :
                i \in 1..Len(product.sizes)}
    ELSE {inv \in product.inventory : isAdmin \/ inv.location_id = assigned}

\* fetchOrders of the Orders view, request and answer in one step.
Orders_fetchOrders ==
  /\ "Orders" \notin loaded
  /\ ordersReceived' = OrdersQuery(isAdmin, assigned, dbOrders)
  /\ loaded' = loaded \cup {"Orders"}
  /\ UNCHANGED <<dbOrders, dbInventory, dbSizes, stats, locations, products>>
  /\ UNCHANGED notScope

\* loadStats of the Dashboard.
Dashboard_loadStats ==
  /\ "Dashboard" \notin loaded
  /\ stats' = loadStats
  /\ loaded' = loaded \cup {"Dashboard"}
  /\ UNCHANGED <<dbOrders, dbInventory, dbSizes, ordersReceived, locations, products>>
  /\ UNCHANGED notScope

\* fetchData of the Inventory view.
Inventory_fetchData ==
  /\ "Inventory" \notin loaded
  /\ products' = dbProducts
  /\ locations' = locQuery
  /\ loaded' = loaded \cup {"Inventory"}
  /\ UNCHANGED <<dbOrders, dbInventory, dbSizes, ordersReceived, stats>>
  /\ UNCHANGED notScope

InitScope ==
  /\ role \in Roles
  /\ assigned \in Locations \cup {NoLocation}
  /\ dbOrders \in {{o} : o \in ScopeOrders}
  /\ dbInventory \in {rows \in SUBSET InventoryRows : Cardinality(rows) <= MaxRows}
  /\ dbSizes \in {<<>>, <<"M">>}
  /\ loaded = {}
  /\ ordersReceived = {}
  /\ stats = NoStats
  /\ locations = {}
  /\ products = {}
  /\ OrdersIdle
  /\ AuthIdle
  /\ ChannelsIdle
  /\ LaterIdle

NextScope ==
  \/ Orders_fetchOrders
  \/ Dashboard_loadStats
  \/ Inventory_fetchData

SpecScope == InitScope /\ [][NextScope]_vars

(***************************************************************************)
(* SpecAuth.  AuthProvider with the session the auth client has stored,    *)
(* the profile requests it has in flight, and the gate of DashboardLayout. *)
(* The login page is not part of the model: a session is one the client    *)
(* has restored from its storage.                                          *)
(***************************************************************************)
\* fetchProfile up to its await.
StartFetchProfile ==
  /\ BagCardinality(profileFetches) < MaxProfileFetches
  /\ profileFetches' = Put(profileFetches, [phase |-> "sent", role |-> NoProfile])

\* The callback of getSession().then in the effect of AuthProvider.
getSessionThen ==
  /\ ~gotSession
  /\ gotSession' = TRUE
  /\ session' = stored
  /\ user' = stored
  /\ IF stored # NoSession
       THEN /\ StartFetchProfile
            /\ UNCHANGED authLoading
       ELSE /\ authLoading' = FALSE
            /\ UNCHANGED profileFetches
  /\ UNCHANGED <<role, assigned, stored, profileRow, authEvent, authToast>>
  /\ UNCHANGED notAuth

\* The callback of onAuthStateChange, called with the session of the client.
onAuthStateChange ==
  /\ authEvent
  /\ authEvent' = FALSE
  /\ session' = stored
  /\ user' = stored
  /\ IF stored # NoSession
       THEN /\ StartFetchProfile
            /\ UNCHANGED <<role, assigned, authLoading>>
       ELSE /\ role' = NoProfile
            /\ assigned' = NoLocation
            /\ authLoading' = FALSE
            /\ UNCHANGED profileFetches
  /\ UNCHANGED <<stored, profileRow, gotSession, authToast>>
  /\ UNCHANGED notAuth

\* The profiles query with single(): the row, an error when there is no row
\* or the request is rejected, or an exception.
BackendProfile(fetch) ==
  /\ BagIn(fetch, profileFetches)
  /\ fetch.phase = "sent"
  /\ \/ /\ profileRow # NoRow
        /\ profileFetches' = Put(Take(profileFetches, fetch),
             [phase |-> "data", role |-> profileRow])
     \/ \E outcome \in {"error", "thrown"} :
          profileFetches' = Put(Take(profileFetches, fetch),
            [fetch EXCEPT !.phase = outcome])
  /\ UNCHANGED <<role, assigned, stored, profileRow, session, user, authLoading,
                 gotSession, authEvent, authToast>>
  /\ UNCHANGED notAuth

\* The rest of fetchProfile, after the await: a failure is logged.
fetchProfileDone(fetch) ==
  /\ BagIn(fetch, profileFetches)
  /\ fetch.phase # "sent"
  /\ IF fetch.phase = "data"
       THEN role' = fetch.role
       ELSE UNCHANGED role
  /\ authLoading' = FALSE
  /\ profileFetches' = Take(profileFetches, fetch)
  /\ UNCHANGED <<assigned, stored, profileRow, session, user, gotSession, authEvent,
                 authToast>>
  /\ UNCHANGED notAuth

\* What DashboardLayout returns.
DashboardLayout ==
  IF authLoading THEN "spinner"
  ELSE IF user = NoSession THEN "login"
  ELSE "dashboard"

\* signOut of AuthProvider, called from handleLogout of DashboardLayout.
handleLogout ==
  /\ DashboardLayout = "dashboard"
  /\ stored' = NoSession
  /\ authEvent' = TRUE
  /\ authToast' = "Logged out"
  /\ UNCHANGED <<role, assigned, profileRow, session, user, authLoading, gotSession,
                 profileFetches>>
  /\ UNCHANGED notAuth

\* The auth client refreshes the token of its session and tells its listeners.
TokenRefreshed ==
  /\ stored # NoSession
  /\ ~authEvent
  /\ authEvent' = TRUE
  /\ UNCHANGED <<role, assigned, stored, profileRow, session, user, authLoading,
                 gotSession, profileFetches, authToast>>
  /\ UNCHANGED notAuth

InitAuth ==
  /\ stored \in {NoSession, "u1"}
  /\ profileRow \in Roles \cup {NoRow}
  /\ role = NoProfile
  /\ assigned = NoLocation
  /\ session = NoSession
  /\ user = NoSession
  /\ authLoading = TRUE
  /\ gotSession = FALSE
  /\ authEvent \in BOOLEAN
  /\ profileFetches = EmptyBag
  /\ authToast = "none"
  /\ OrdersIdle
  /\ ScopeIdle
  /\ ChannelsIdle
  /\ LaterIdle

NextAuth ==
  \/ getSessionThen
  \/ onAuthStateChange
  \/ \E fetch \in BagToSet(profileFetches) : BackendProfile(fetch)
  \/ \E fetch \in BagToSet(profileFetches) : fetchProfileDone(fetch)
  \/ handleLogout
  \/ TokenRefreshed

SpecAuth == InitAuth /\ [][NextAuth]_vars

(***************************************************************************)
(* SpecChannels.  The subscription effects of the Orders, Logistics and    *)
(* Dashboard views over mounts, changes of the profile and unmounts.  A    *)
(* channel is <<view, n>>, the n-th channel the view has opened.           *)
(***************************************************************************)
\* The dependencies of the effect of a view under a profile: those of
\* fetchOrders, hasAccess, and those of loadStats.
Deps(view, r, a) ==
  IF view = "Orders" THEN <<r = "admin", a>>
  ELSE IF view = "Logistics" THEN <<r = "admin" \/ r = "driver">>
  ELSE <<r = "driver", r = "manager", a>>

\* The effect of a view subscribes: the effect of the Logistics view
\* returns before it does when the profile has no access.
Subscribes(view, r) == view # "Logistics" \/ r = "admin" \/ r = "driver"

\* The channel the effect of a view opens when it runs under role r.
NewChannel(view, r) ==
  IF Subscribes(view, r) THEN <<view, opened[view] + 1>> ELSE NoChannel

\* A cleanup that drops the channel without removing it.
CleanupForgets(view) == {}

\* The channels the cleanup of the current effect of a view removes.
Cleanup(view) == IF effect[view] = NoChannel THEN {} ELSE {effect[view]}

\* The view mounts and its effect runs.
Mount(view) ==
  /\ ~mounted[view]
  /\ opened[view] < MaxChannels
  /\ mounted' = [mounted EXCEPT ![view] = TRUE]
  /\ effect' = [effect EXCEPT ![view] = NewChannel(view, role)]
  /\ opened' = [opened EXCEPT ![view] = IF Subscribes(view, role) THEN @ + 1 ELSE @]
  /\ channels' = channels \cup ({NewChannel(view, role)} \ {NoChannel})
  /\ UNCHANGED <<role, assigned, removed>>
  /\ UNCHANGED notChannels

\* The view unmounts and the cleanup of its effect runs.
Unmount(view) ==
  /\ mounted[view]
  /\ mounted' = [mounted EXCEPT ![view] = FALSE]
  /\ effect' = [effect EXCEPT ![view] = NoChannel]
  /\ channels' = channels \ Cleanup(view)
  /\ removed' = removed (+) SetToBag(Cleanup(view))
  /\ UNCHANGED <<role, assigned, opened>>
  /\ UNCHANGED notChannels

\* The profile of useAuth changes: in the commit, every mounted view whose
\* dependencies have changed runs the cleanup of its effect, then the effect.
ProfileChange(r, a) ==
  /\ <<r, a>> # <<role, assigned>>
  /\ LET rerun == {v \in Views : mounted[v] /\ Deps(v, r, a) # Deps(v, role, assigned)}
         gone == UNION {Cleanup(v) : v \in rerun}
     IN /\ \A v \in rerun : opened[v] < MaxChannels
        /\ role' = r
        /\ assigned' = a
        /\ effect' = [v \in Views |-> IF v \in rerun THEN NewChannel(v, r) ELSE effect[v]]
        /\ opened' = [v \in Views |->
                        IF v \in rerun /\ Subscribes(v, r) THEN opened[v] + 1 ELSE opened[v]]
        /\ channels' = (channels \ gone) \cup ({NewChannel(v, r) : v \in rerun} \ {NoChannel})
        /\ removed' = removed (+) SetToBag(gone)
  /\ UNCHANGED mounted
  /\ UNCHANGED notChannels

InitChannels ==
  /\ role \in Roles \cup {NoProfile}
  /\ assigned \in Locations \cup {NoLocation}
  /\ mounted = [v \in Views |-> FALSE]
  /\ effect = [v \in Views |-> NoChannel]
  /\ opened = [v \in Views |-> 0]
  /\ channels = {}
  /\ removed = EmptyBag
  /\ OrdersIdle
  /\ ScopeIdle
  /\ AuthIdle
  /\ LaterIdle

NextChannels ==
  \/ \E view \in Views : Mount(view)
  \/ \E view \in Views : Unmount(view)
  \/ \E r \in Roles \cup {NoProfile}, a \in Locations \cup {NoLocation} : ProfileChange(r, a)

SpecChannels == InitChannels /\ [][NextChannels]_vars

(***************************************************************************)
(* SpecStock: the Inventory view (src/src/pages/Inventory.tsx) on one      *)
(* product: its rows in the inventory table, its archive flag, the stock   *)
(* dialog and the handlers handleUpdateStock, toggleArchive and fetchData. *)
(* An inventory row is [location_id, size_name, quantity]; the price       *)
(* column is left out: no condition of the handlers reads it.              *)
(***************************************************************************)
MaxStockFetches == 1

\* The locations stock is kept at.
StockLocations == {"loc-42"}

Sizes == {"M"}

Quantities == {0, 1}

\* `x || null` on a form string: the empty string is falsy.
OrNull(x) == IF x = "" THEN NoSize ELSE x

\* The PostgREST filter written by .eq(column, value): `column=eq.value`.
\* A NULL column is equal to nothing, and the value null is sent as the
\* text "null", which is not the test `is.null`.
PgEq(column, value) == column # NoSize /\ value # NoSize /\ column = value

\* `i.size_name === (newSize || null)` in JavaScript: null is equal to null.
JsEq(a, b) == a = b

\* The product as `select *, inventory(...)` returns it.
DbProductView ==
  [is_archived |-> dbProduct.is_archived, sizes |-> dbProduct.sizes, inventory |-> dbStock]

\* delete().eq("product_id").eq("location_id").eq("size_name", size_name || null)
DeleteMatching(rows, form) ==
  {r \in rows : ~(/\ PgEq(r.location_id, form.location_id)
                  /\ PgEq(r.size_name, OrNull(form.size_name)))}

\* upsert(..., {onConflict: "product_id,location_id,size_name"}): the row of
\* the triple is replaced, the unique key being taken to cover a null size.
Upsert(rows, form) ==
  {r \in rows : ~(/\ r.location_id = form.location_id
                  /\ r.size_name = OrNull(form.size_name))}
    \cup {[location_id |-> form.location_id, size_name |-> OrNull(form.size_name),
           quantity |-> form.quantity]}

\* The inventories the optimistic update of handleUpdateStock can produce:
\* findIndex takes the first row of the location, and the order of the rows
\* is the order the backend returned them in, which the query leaves open.
OptimisticInventories(inv, form) ==
  LET sameLocation == {i \in inv : i.location_id = form.location_id} IN
  IF sameLocation = {}
    THEN IF form.quantity = 0
           THEN {inv}
           ELSE {inv \cup {[location_id |-> form.location_id, size_name |-> NoSize,
                            quantity |-> form.quantity]}}
    ELSE {IF form.quantity = 0
            THEN inv \ {i}
            ELSE (inv \ {i}) \cup {[i EXCEPT !.quantity = form.quantity]}
          : i \in sameLocation}

SetArchived(list, flag) == {[p EXCEPT !.is_archived = flag] : p \in list}

StartStockFetch ==
  /\ BagCardinality(stockFetches) < MaxStockFetches
  /\ invLoading' = TRUE
  /\ stockFetches' = Put(stockFetches, "sent")

\* fetchData called from the Refresh button (disabled while loading).
fetchData ==
  /\ ~invLoading
  /\ StartStockFetch
  /\ UNCHANGED <<dbProduct, dbStock, invProducts, selectedProduct, isStockOpen,
                 stockForm, saving, updatingProducts, stockCall, stockToast>>
  /\ UNCHANGED notStock

\* The products query is answered and fetchData continues:
\* `if (productData) setProducts(productData)`; productData is null when the
\* request failed.
fetchDataDone ==
  /\ \E f \in BagToSet(stockFetches) :
       /\ stockFetches' = Take(stockFetches, f)
       /\ \E productData \in {{DbProductView}, {}} :
            invProducts' = IF productData # {} THEN productData ELSE invProducts
  /\ invLoading' = FALSE
  /\ UNCHANGED <<dbProduct, dbStock, selectedProduct, isStockOpen, stockForm, saving,
                 updatingProducts, stockCall, stockToast>>
  /\ UNCHANGED notStock

\* The rows of the table are shown when not loading, and the dialog is modal.
TableUsable == ~invLoading /\ ~isStockOpen

openStockDialog ==
  /\ TableUsable
  /\ updatingProducts = {}
  /\ \E product \in invProducts :
       /\ selectedProduct' = product
       /\ IF ~isAdmin /\ assigned # NoLocation
            THEN LET mine == {i \in product.inventory : i.location_id = assigned} IN
                 \E currentStock \in IF mine = {} THEN {0} ELSE {i.quantity : i \in mine} :
                   stockForm' = [location_id |-> assigned, quantity |-> currentStock,
                                 size_name |-> ""]
            ELSE stockForm' = [location_id |-> "", quantity |-> 0, size_name |-> ""]
  /\ isStockOpen' = TRUE
  /\ UNCHANGED <<dbProduct, dbStock, invProducts, invLoading, saving, updatingProducts,
                 stockCall, stockFetches, stockToast>>
  /\ UNCHANGED notStock

\* onOpenChange of the dialog.
CloseStockDialog ==
  /\ isStockOpen
  /\ isStockOpen' = FALSE
  /\ UNCHANGED <<dbProduct, dbStock, invProducts, invLoading, selectedProduct, stockForm,
                 saving, updatingProducts, stockCall, stockFetches, stockToast>>
  /\ UNCHANGED notStock

\* The Location select of the dialog (disabled for a manager with a location).
SelectLocation ==
  /\ isStockOpen
  /\ ~(~isAdmin /\ assigned # NoLocation)
  /\ \E val \in StockLocations :
       stockForm' = [location_id |-> val, size_name |-> "", quantity |-> 0]
  /\ UNCHANGED <<dbProduct, dbStock, invProducts, invLoading, selectedProduct,
                 isStockOpen, saving, updatingProducts, stockCall, stockFetches,
                 stockToast>>
  /\ UNCHANGED notStock

\* The Size select of the dialog, shown when the product has sizes.
SelectSize ==
  /\ isStockOpen
  /\ selectedProduct.sizes # {}
  /\ \E newSize \in selectedProduct.sizes \cup {""} :
       LET existing == {i \in selectedProduct.inventory :
                          /\ i.location_id = stockForm.location_id
                          /\ JsEq(i.size_name, OrNull(newSize))} IN
       \E q \in IF existing = {} THEN {0} ELSE {i.quantity : i \in existing} :
         stockForm' = [stockForm EXCEPT !.size_name = newSize, !.quantity = q]
  /\ UNCHANGED <<dbProduct, dbStock, invProducts, invLoading, selectedProduct,
                 isStockOpen, saving, updatingProducts, stockCall, stockFetches,
                 stockToast>>
  /\ UNCHANGED notStock

\* The quantity input and its - and + buttons, hidden until a size is chosen.
SetQuantity ==
  /\ isStockOpen
  /\ ~(selectedProduct.sizes # {} /\ stockForm.size_name = "")
  /\ \E q \in Quantities \ {stockForm.quantity} :
       stockForm' = [stockForm EXCEPT !.quantity = q]
  /\ UNCHANGED <<dbProduct, dbStock, invProducts, invLoading, selectedProduct,
                 isStockOpen, saving, updatingProducts, stockCall, stockFetches,
                 stockToast>>
  /\ UNCHANGED notStock

\* The product id in the set of useUpdatingSet.
ProductId == "p1"

\* handleUpdateStock without a location: the validation toast.
handleUpdateStockNoLocation ==
  /\ isStockOpen /\ ~saving
  /\ stockForm.location_id = ""
  /\ stockToast' = "Please select a location"
  /\ UNCHANGED <<dbProduct, dbStock, invProducts, invLoading, selectedProduct,
                 isStockOpen, stockForm, saving, updatingProducts, stockCall, stockFetches>>
  /\ UNCHANGED notStock

\* handleUpdateStock up to its first await: the optimistic update and the
\* delete or upsert request.  stockCall holds what the closure captured and
\* the state can change meanwhile: stockForm and products.  selectedProduct
\* is read from the state: openStockDialog, which alone sets it, is disabled
\* while the product is in the updating set.
handleUpdateStock ==
  /\ isStockOpen /\ ~saving
  /\ stockForm.location_id # ""
  /\ stockCall.pc = "idle"
  /\ saving' = TRUE
  /\ updatingProducts' = updatingProducts \cup {ProductId}
  /\ \E updatedInv \in UNION {OptimisticInventories(p.inventory, stockForm) : p \in invProducts}
                         \cup (IF invProducts = {} THEN {{}} ELSE {}) :
       invProducts' = {[p EXCEPT !.inventory = updatedInv] : p \in invProducts}
  /\ stockCall' = [pc |-> "write_sent", form |-> stockForm, previous |-> invProducts,
                   effect |-> "none", value |-> FALSE]
  /\ UNCHANGED <<dbProduct, dbStock, invLoading, selectedProduct, isStockOpen, stockForm,
                 stockFetches, stockToast>>
  /\ UNCHANGED notStock

\* The finally block of handleUpdateStock.
StockFinally ==
  /\ saving' = FALSE
  /\ updatingProducts' = updatingProducts \ {ProductId}
  /\ StartStockFetch
  /\ stockCall' = IdleCall

\* `toast.success("Stock updated successfully"); setIsStockOpen(false)`.
StockSuccess ==
  /\ stockToast' = "Stock updated successfully"
  /\ isStockOpen' = FALSE
  /\ StockFinally

RevertProductsSkipped == invProducts' = invProducts

\* setProducts(previousProducts)
RevertProducts == invProducts' = stockCall.previous

\* The backend rejects the delete or the upsert and the handler continues:
\* setProducts(previousProducts), throw, catch (the toast shows the message
\* of the error), finally.
StockWriteRejected ==
  /\ stockCall.pc = "write_sent"
  /\ RevertProducts
  /\ stockToast' = "backend error message"
  /\ StockFinally
  /\ UNCHANGED <<dbProduct, dbStock, selectedProduct, isStockOpen, stockForm>>
  /\ UNCHANGED notStock

\* What a write did to the rows of the product (kept for the claims; the
\* handler does not know it).
WriteEffect(before, after) ==
  IF after = before THEN "kept"
  ELSE IF after \subseteq before THEN "deleted"
  ELSE IF before \subseteq after THEN "added"
  ELSE "replaced"

\* The backend runs the delete or the upsert and the handler continues: the
\* select of the product's inventory ids is sent (previousProducts is not
\* read again).
StockWriteDone ==
  /\ stockCall.pc = "write_sent"
  /\ dbStock' = IF stockCall.form.quantity = 0
                  THEN DeleteMatching(dbStock, stockCall.form)
                  ELSE Upsert(dbStock, stockCall.form)
  /\ stockCall' = [stockCall EXCEPT !.pc = "select_sent", !.previous = {},
                                    !.effect = WriteEffect(dbStock, dbStock')]
  /\ UNCHANGED <<dbProduct, invProducts, invLoading, selectedProduct, isStockOpen,
                 stockForm, saving, updatingProducts, stockFetches, stockToast>>
  /\ UNCHANGED notStock

\* The select fails: invErr is set, the flag is left alone.
StockSelectFailed ==
  /\ stockCall.pc = "select_sent"
  /\ StockSuccess
  /\ UNCHANGED <<dbProduct, dbStock, invProducts, selectedProduct, stockForm>>
  /\ UNCHANGED notStock

\* The select is answered: the flag is recomputed from the rows found, and
\* written when it differs from the flag of the product the dialog holds.
StockSelectDone ==
  /\ stockCall.pc = "select_sent"
  /\ LET hasInventory == dbStock # {}
         shouldArchive == ~hasInventory IN
     /\ invProducts' = SetArchived(invProducts, shouldArchive)
     /\ IF selectedProduct.is_archived # shouldArchive
          THEN /\ stockCall' = [stockCall EXCEPT !.pc = "arch_sent",
                                                 !.value = shouldArchive]
               /\ UNCHANGED <<invLoading, isStockOpen, saving, updatingProducts,
                              stockFetches, stockToast>>
          ELSE StockSuccess
  /\ UNCHANGED <<dbProduct, dbStock, selectedProduct, stockForm>>
  /\ UNCHANGED notStock

\* The update of the archive flag is run or rejected (archErr is logged
\* only) and the handler ends.
StockArchiveDone ==
  /\ stockCall.pc = "arch_sent"
  /\ \/ dbProduct' = [dbProduct EXCEPT !.is_archived = stockCall.value]
     \/ dbProduct' = dbProduct
  /\ StockSuccess
  /\ UNCHANGED <<dbStock, invProducts, selectedProduct, stockForm>>
  /\ UNCHANGED notStock

\* toggleArchive from the click to the end of its finally block: the
\* optimistic flip, the update of the flag (rolled back when rejected), the
\* toast and fetchData.  The button is shown to an admin.
toggleArchive ==
  /\ isAdmin
  /\ TableUsable
  /\ \E product \in invProducts :
       \/ /\ dbProduct' = [dbProduct EXCEPT !.is_archived = ~product.is_archived]
          /\ invProducts' = {[x EXCEPT !.is_archived = ~x.is_archived] : x \in invProducts}
          /\ stockToast' = IF product.is_archived THEN "Product unarchived"
                                                  ELSE "Product archived"
       \/ /\ dbProduct' = dbProduct
          /\ invProducts' = invProducts
          /\ stockToast' \in {"backend error message", "Failed to update archive status"}
  /\ StartStockFetch
  /\ UNCHANGED <<dbStock, selectedProduct, isStockOpen, stockForm, saving,
                 updatingProducts, stockCall>>
  /\ UNCHANGED notStock

\* Step 2 of handleDeleteLocation on the Locations page, run by an admin in
\* another tab: the inventory rows of a location are deleted.
DeleteLocationInventory ==
  /\ stockCall.pc = "idle"
  /\ \E l \in StockLocations :
       /\ \E r \in dbStock : r.location_id = l
       /\ dbStock' = {r \in dbStock : r.location_id # l}
  /\ UNCHANGED <<dbProduct, invProducts, invLoading, selectedProduct, isStockOpen,
                 stockForm, saving, updatingProducts, stockCall, stockFetches,
                 stockToast>>
  /\ UNCHANGED notStock

\* toggleArchive run by an admin in another tab, from call to answer.
OtherToggleArchive ==
  /\ stockCall.pc = "idle"
  /\ dbProduct' = [dbProduct EXCEPT !.is_archived = ~dbProduct.is_archived]
  /\ UNCHANGED <<dbStock, invProducts, invLoading, selectedProduct, isStockOpen,
                 stockForm, saving, updatingProducts, stockCall, stockFetches,
                 stockToast>>
  /\ UNCHANGED notStock

StockRows == [location_id : StockLocations, size_name : Sizes \cup {NoSize}, quantity : {1}]

\* The view mounts with loading true and its first fetchData under way; the
\* product has no row and is archived, or one row and is not.
InitStock ==
  /\ role \in {"admin", "manager"}
  /\ assigned = IF role = "manager" THEN "loc-42" ELSE NoLocation
  /\ dbStock \in {{}} \cup {{r} : r \in StockRows}
  /\ dbProduct \in {[is_archived |-> (dbStock = {}), sizes |-> s] :
                      s \in {{r.size_name : r \in dbStock} \ {NoSize}, Sizes}}
  /\ invProducts = {}
  /\ invLoading = TRUE
  /\ selectedProduct = NoSelection
  /\ isStockOpen = FALSE
  /\ stockForm = [location_id |-> "", quantity |-> 0, size_name |-> ""]
  /\ saving = FALSE
  /\ updatingProducts = {}
  /\ stockCall = IdleCall
  /\ stockFetches = SetToBag({"sent"})
  /\ stockToast = "none"
  /\ OrdersIdle
  /\ ScopeIdle
  /\ AuthIdle
  /\ ChannelsIdle
  /\ CascadeIdle
  /\ SizesIdle
  /\ ProductIdle
  /\ ManagerIdle

NextStock ==
  \/ fetchData \/ fetchDataDone
  \/ openStockDialog \/ CloseStockDialog
  \/ SelectLocation \/ SelectSize \/ SetQuantity
  \/ handleUpdateStockNoLocation \/ handleUpdateStock
  \/ StockWriteRejected \/ StockWriteDone
  \/ StockSelectFailed \/ StockSelectDone
  \/ StockArchiveDone
  \/ toggleArchive
  \/ DeleteLocationInventory \/ OtherToggleArchive

SpecStock == InitStock /\ [][NextStock]_vars

(***************************************************************************)
(* SpecCascade: the Locations page (src/src/pages/Stores.tsx) and its      *)
(* handler handleDeleteLocation, with other sessions writing orders,       *)
(* inventory rows and staff assignments between its steps.  The tables     *)
(* are kept as the sets of locations their rows refer to.                  *)
(***************************************************************************)
\* The steps of handleDeleteLocation, in the order of the code.
CascadeSteps == <<"orders", "inventory", "profiles", "location">>

\* The backend message of a rejected request.
BackendMessage == "backend error message"

\* The message handleDeleteLocation throws when step k was rejected.  The
\* last step throws deleteError.message, and "Delete failed: " with the
\* error as JSON when that message is empty.
StepErrors(k) ==
  CASE k = 1 -> {"Failed to clear orders: backend error message"}
    [] k = 2 -> {"Failed to clear inventory: backend error message"}
    [] k = 3 -> {"Failed to clear profiles: backend error message"}
    [] k = 4 -> {BackendMessage, "Delete failed: {}"}

ForeignKeysDropped(l) == TRUE

\* The foreign keys of orders.pickup_location_id, inventory.location_id and
\* profiles.assigned_location_id to locations.id: a location row that is
\* still referred to cannot be deleted.
ForeignKeysAllow(l) == l \notin refOrders \cup refInventory \cup refProfiles

\* fetchLocations, from the query to setLocations (Refresh button, mount).
fetchLocations ==
  /\ \/ /\ storeList' = dbLocationIds
        /\ cascadeToast' = cascadeToast
     \/ /\ storeList' = storeList
        /\ cascadeToast' = "Failed to load locations"
  /\ UNCHANGED <<dbLocationIds, refOrders, refInventory, refProfiles, locationToDelete,
                 deleteDialogOpen, deleting, cascade>>
  /\ UNCHANGED notCascade

\* The trash button of a location card.
OpenDeleteDialog ==
  /\ ~deleteDialogOpen
  /\ \E loc \in storeList :
       locationToDelete' = loc
  /\ deleteDialogOpen' = TRUE
  /\ UNCHANGED <<dbLocationIds, refOrders, refInventory, refProfiles, storeList,
                 deleting, cascade, cascadeToast>>
  /\ UNCHANGED notCascade

\* The Cancel button of the dialog (disabled while deleting).
CancelDelete ==
  /\ deleteDialogOpen /\ ~deleting
  /\ deleteDialogOpen' = FALSE
  /\ locationToDelete' = NoLocation
  /\ UNCHANGED <<dbLocationIds, refOrders, refInventory, refProfiles, storeList,
                 deleting, cascade, cascadeToast>>
  /\ UNCHANGED notCascade

\* onOpenChange of the dialog: closed with Escape or a click outside.
DismissDeleteDialog ==
  /\ deleteDialogOpen
  /\ deleteDialogOpen' = FALSE
  /\ UNCHANGED <<dbLocationIds, refOrders, refInventory, refProfiles, storeList,
                 locationToDelete, deleting, cascade, cascadeToast>>
  /\ UNCHANGED notCascade

\* handleDeleteLocation up to its first await: the request of step 1.
handleDeleteLocation ==
  /\ deleteDialogOpen /\ ~deleting
  /\ locationToDelete # NoLocation
  /\ deleting' = TRUE
  /\ cascade' = [step |-> 1, id |-> locationToDelete]
  /\ UNCHANGED <<dbLocationIds, refOrders, refInventory, refProfiles, storeList,
                 locationToDelete, deleteDialogOpen, cascadeToast>>
  /\ UNCHANGED notCascade

\* Steps 1 to 3: the backend runs the request and the handler sends the next.
CascadeStepDone ==
  /\ cascade.step \in 1 .. 3
  /\ refOrders' = IF cascade.step = 1 THEN refOrders \ {cascade.id} ELSE refOrders
  /\ refInventory' = IF cascade.step = 2 THEN refInventory \ {cascade.id} ELSE refInventory
  /\ refProfiles' = IF cascade.step = 3 THEN refProfiles \ {cascade.id} ELSE refProfiles
  /\ cascade' = [cascade EXCEPT !.step = cascade.step + 1]
  /\ UNCHANGED <<dbLocationIds, storeList, locationToDelete, deleteDialogOpen, deleting,
                 cascadeToast>>
  /\ UNCHANGED notCascade

\* The catch and finally blocks after the request of the step was rejected.
CascadeFailed ==
  /\ cascadeToast' \in StepErrors(cascade.step)
  /\ deleting' = FALSE
  /\ cascade' = IdleCascade
  /\ UNCHANGED <<dbLocationIds, refOrders, refInventory, refProfiles, storeList,
                 locationToDelete, deleteDialogOpen>>

\* The backend rejects the request of a step (any step can fail).
CascadeStepRejected ==
  /\ cascade.step \in 1 .. 4
  /\ CascadeFailed
  /\ UNCHANGED notCascade

\* Step 4: the backend deletes the location row, or refuses while a row
\* still refers to it; then the success path or the catch block, and finally.
DeleteLocationDone ==
  /\ cascade.step = 4
  /\ IF ForeignKeysAllow(cascade.id)
       THEN /\ dbLocationIds' = dbLocationIds \ {cascade.id}
            /\ cascadeToast' = "has been deleted."
            /\ storeList' = storeList \ {cascade.id}
            /\ deleteDialogOpen' = FALSE
            /\ locationToDelete' = NoLocation
            /\ deleting' = FALSE
            /\ cascade' = IdleCascade
            /\ UNCHANGED <<refOrders, refInventory, refProfiles>>
       ELSE CascadeFailed
  /\ UNCHANGED notCascade

\* Another session writes a row that refers to an existing location: an
\* order with that pickup location, ...
OtherOrderWrite ==
  /\ \E l \in dbLocationIds \ refOrders : refOrders' = refOrders \cup {l}
  /\ UNCHANGED <<dbLocationIds, refInventory, refProfiles, storeList, locationToDelete,
                 deleteDialogOpen, deleting, cascade, cascadeToast>>
  /\ UNCHANGED notCascade

\* ... an inventory row (the upsert of handleUpdateStock), ...
OtherInventoryWrite ==
  /\ \E l \in dbLocationIds \ refInventory : refInventory' = refInventory \cup {l}
  /\ UNCHANGED <<dbLocationIds, refOrders, refProfiles, storeList, locationToDelete,
                 deleteDialogOpen, deleting, cascade, cascadeToast>>
  /\ UNCHANGED notCascade

\* ... or a staff assignment.
OtherStaffAssignment ==
  /\ \E l \in dbLocationIds \ refProfiles : refProfiles' = refProfiles \cup {l}
  /\ UNCHANGED <<dbLocationIds, refOrders, refInventory, storeList, locationToDelete,
                 deleteDialogOpen, deleting, cascade, cascadeToast>>
  /\ UNCHANGED notCascade

\* The page is mounted and has loaded the locations; rows refer to some of them.
InitCascade ==
  /\ dbLocationIds = Locations
  /\ refOrders \in SUBSET Locations
  /\ refInventory \in SUBSET Locations
  /\ refProfiles \in SUBSET Locations
  /\ storeList = Locations
  /\ locationToDelete = NoLocation
  /\ deleteDialogOpen = FALSE
  /\ deleting = FALSE
  /\ cascade = IdleCascade
  /\ cascadeToast = "none"
  /\ role = "admin"
  /\ assigned = NoLocation
  /\ OrdersIdle
  /\ ScopeIdle
  /\ AuthIdle
  /\ ChannelsIdle
  /\ StockIdle
  /\ SizesIdle
  /\ ProductIdle
  /\ ManagerIdle

NextCascade ==
  \/ fetchLocations
  \/ OpenDeleteDialog \/ CancelDelete \/ DismissDeleteDialog
  \/ handleDeleteLocation
  \/ CascadeStepDone \/ CascadeStepRejected \/ DeleteLocationDone
  \/ OtherOrderWrite \/ OtherInventoryWrite \/ OtherStaffAssignment

SpecCascade == InitCascade /\ [][NextCascade]_vars

(***************************************************************************)
(* The size configuration (src/unnamed/part_005, lib/size-config): the     *)
(* functions detectProductCategory and getMeasurementFields.  A string is  *)
(* the sequence of its characters, a tag list a sequence of strings.       *)
(***************************************************************************)
MaxTags == 2

UpperCase ==
  <<"A", "B", "C", "D", "E", "F", "G", "H", "I", "J", "K", "L", "M",
    "N", "O", "P", "Q", "R", "S", "T", "U", "V", "W", "X", "Y", "Z">>

LowerCase ==
  <<"a", "b", "c", "d", "e", "f", "g", "h", "i", "j", "k", "l", "m",
    "n", "o", "p", "q", "r", "s", "t", "u", "v", "w", "x", "y", "z">>

toLowerCaseKept(s) == s

\* String.prototype.toLowerCase
toLowerCase(s) ==
  [i \in 1 .. Len(s) |->
     IF \E k \in 1 .. 26 : UpperCase[k] = s[i]
       THEN LowerCase[CHOOSE k \in 1 .. 26 : UpperCase[k] = s[i]]
       ELSE s[i]]

\* Array.prototype.join(" ")
RECURSIVE join(_)
join(list) ==
  IF Len(list) = 0 THEN <<>>
  ELSE IF Len(list) = 1 THEN list[1]
  ELSE list[1] \o <<" ">> \o join(Tail(list))

\* String.prototype.includes
includes(s, part) ==
  \E i \in 1 .. (Len(s) - Len(part) + 1) : SubSeq(s, i, i + Len(part) - 1) = part

\* String.prototype.trim, for blanks.
RECURSIVE trim(_)
trim(s) ==
  IF Len(s) = 0 THEN s
  ELSE IF s[1] = " " THEN trim(Tail(s))
  ELSE IF s[Len(s)] = " " THEN trim(SubSeq(s, 1, Len(s) - 1))
  ELSE s

\* value.split(",").map((c) => c.trim()).filter(Boolean), on the segments
\* between the commas.
SplitTags(segments) == SelectSeq([i \in 1 .. Len(segments) |-> trim(segments[i])],
                                 LAMBDA c : c # <<>>)

\* The argument `undefined` of detectProductCategory.
Undefined == << <<"undefined">> >>

\* The keywords of detectProductCategory.
Keyword ==
  [shirt |-> <<"s", "h", "i", "r", "t">>,
   top |-> <<"t", "o", "p">>,
   tee |-> <<"t", "e", "e">>,
   blouse |-> <<"b", "l", "o", "u", "s", "e">>,
   pant |-> <<"p", "a", "n", "t">>,
   jean |-> <<"j", "e", "a", "n">>,
   trouser |-> <<"t", "r", "o", "u", "s", "e", "r">>,
   legging |-> <<"l", "e", "g", "g", "i", "n", "g">>,
   shoe |-> <<"s", "h", "o", "e">>,
   sneaker |-> <<"s", "n", "e", "a", "k", "e", "r">>,
   belt |-> <<"b", "e", "l", "t">>,
   accessory |-> <<"a", "c", "c", "e", "s", "s", "o", "r", "y">>,
   dress |-> <<"d", "r", "e", "s", "s">>,
   skirt |-> <<"s", "k", "i", "r", "t">>,
   gown |-> <<"g", "o", "w", "n">>,
   jacket |-> <<"j", "a", "c", "k", "e", "t">>,
   coat |-> <<"c", "o", "a", "t">>,
   blazer |-> <<"b", "l", "a", "z", "e", "r">>,
   perfume |-> <<"p", "e", "r", "f", "u", "m", "e">>,
   fragrance |-> <<"f", "r", "a", "g", "r", "a", "n", "c", "e">>,
   cologne |-> <<"c", "o", "l", "o", "g", "n", "e">>,
   scent |-> <<"s", "c", "e", "n", "t">>]

detectProductCategory(categories) ==
  IF categories = Undefined \/ Len(categories) = 0 THEN "generic"
  ELSE
    LET categoryLower == toLowerCase(join(categories)) IN
    IF \/ includes(categoryLower, Keyword.shirt)
       \/ includes(categoryLower, Keyword.top)
       \/ includes(categoryLower, Keyword.tee)
       \/ includes(categoryLower, Keyword.blouse)
      THEN "shirts"
    ELSE IF \/ includes(categoryLower, Keyword.pant)
            \/ includes(categoryLower, Keyword.jean)
            \/ includes(categoryLower, Keyword.trouser)
            \/ includes(categoryLower, Keyword.legging)
      THEN "pants"
    ELSE IF includes(categoryLower, Keyword.shoe) \/ includes(categoryLower, Keyword.sneaker)
      THEN "shoes"
    ELSE IF includes(categoryLower, Keyword.belt) \/ includes(categoryLower, Keyword.accessory)
      THEN "belts"
    ELSE IF \/ includes(categoryLower, Keyword.dress)
            \/ includes(categoryLower, Keyword.skirt)
            \/ includes(categoryLower, Keyword.gown)
      THEN "dresses"
    ELSE IF \/ includes(categoryLower, Keyword.jacket)
            \/ includes(categoryLower, Keyword.coat)
            \/ includes(categoryLower, Keyword.blazer)
      THEN "jackets"
    ELSE IF \/ includes(categoryLower, Keyword.perfume)
            \/ includes(categoryLower, Keyword.fragrance)
            \/ includes(categoryLower, Keyword.cologne)
            \/ includes(categoryLower, Keyword.scent)
      THEN "perfumes"
    ELSE "generic"

\* The keys of the measurement fields of each category, in their order.
SIZE_CATEGORIES ==
  [shirts |-> <<"chest_cm", "shoulder_width_cm", "sleeve_length_cm", "front_length_cm",
                "back_length_cm">>,
   pants |-> <<"waist_cm", "hip_cm", "inseam_cm", "thigh_width_cm">>,
   shoes |-> <<"size_us", "size_eu", "foot_length_cm", "foot_width_cm">>,
   belts |-> <<"belt_length_cm", "belt_width_cm">>,
   dresses |-> <<"chest_cm", "waist_cm", "hip_cm", "front_length_cm", "back_length_cm">>,
   jackets |-> <<"chest_cm", "shoulder_width_cm", "sleeve_length_cm", "front_length_cm">>,
   perfumes |-> <<>>,
   generic |-> <<"chest_cm", "waist_cm", "hip_cm", "front_length_cm">>]

EmptyIsFalsy(fields) == fields # <<>>

\* The left operand of `||` when the category has an entry: an array is
\* truthy, the empty array included.
Truthy(fields) == TRUE

\* SIZE_CATEGORIES[category]?.fields || SIZE_CATEGORIES.generic.fields
getMeasurementFields(category) ==
  IF category \in DOMAIN SIZE_CATEGORIES /\ Truthy(SIZE_CATEGORIES[category])
    THEN SIZE_CATEGORIES[category]
    ELSE SIZE_CATEGORIES.generic

\* The tags the functions are applied to.
SampleTags ==
  {<<"R", "u", "n", "n", "i", "n", "g", " ", "S", "n", "e", "a", "k", "e", "r", "s">>,
   <<"L", "e", "a", "t", "h", "e", "r", " ", "B", "e", "l", "t">>,
   <<"A", "c", "c", "e", "s", "s", "o", "r", "i", "e", "s">>,
   <<"V", "i", "n", "t", "a", "g", "e", " ", "P", "o", "s", "t", "e", "r">>,
   <<"R", "a", "i", "n", "c", "o", "a", "t">>,
   <<"E", "a", "u", " ", "d", "e", " ", "C", "O", "L", "O", "G", "N", "E">>}

RECURSIVE ListsUpTo(_, _)
ListsUpTo(S, n) ==
  IF n = 0 THEN {<<>>}
  ELSE LET shorter == ListsUpTo(S, n - 1) IN
       shorter \cup {Append(l, x) : l \in shorter, x \in S}

TagLists == ListsUpTo(SampleTags, MaxTags)

DetectInputs == TagLists \cup {Undefined}

\* Category keys: the keys of SIZE_CATEGORIES, and strings that are not.
CategoryKeys ==
  DOMAIN SIZE_CATEGORIES \cup {"", "Shirts", "hats", "constructor", "undefined"}

\* detectProductCategory on the inputs, computed once.
detectedFor == [c \in DetectInputs |-> detectProductCategory(c)]

(***************************************************************************)
(* SpecSizeConfig: the two functions applied to inputs from the sets       *)
(* above.                                                                  *)
(***************************************************************************)
NoDetection == [categories |-> <<>>, result |-> "none"]

NoLookup == [category |-> "none", fields |-> <<>>]

detectProductCategoryCall ==
  /\ \E categories \in DetectInputs :
       detected' = [categories |-> categories, result |-> detectedFor[categories]]
  /\ UNCHANGED <<formCategories, clothingType, isAddOpen, lookup>>
  /\ UNCHANGED notSizes

getMeasurementFieldsCall ==
  /\ \E category \in CategoryKeys :
       lookup' = [category |-> category, fields |-> getMeasurementFields(category)]
  /\ UNCHANGED <<formCategories, clothingType, isAddOpen, detected>>
  /\ UNCHANGED notSizes

InitSizeConfig ==
  /\ SizesIdle
  /\ role = NoProfile
  /\ assigned = NoLocation
  /\ OrdersIdle
  /\ ScopeIdle
  /\ AuthIdle
  /\ ChannelsIdle
  /\ StockIdle
  /\ CascadeIdle
  /\ ProductIdle
  /\ ManagerIdle

NextSizeConfig == detectProductCategoryCall \/ getMeasurementFieldsCall

SpecSizeConfig == InitSizeConfig /\ [][NextSizeConfig]_vars

(***************************************************************************)
(* SpecSizes: the product dialog of the Inventory view and the fields      *)
(* SizeManager shows in it.  newProduct.categories is kept as the sequence *)
(* of the segments between its commas.                                     *)
(***************************************************************************)
CLOTHING_TYPES ==
  {"shirts", "pants", "shoes", "belts", "dresses", "jackets", "perfumes", "generic"}

\* Segments typed into the Category input: with blanks around, and empty.
FormSegments ==
  {<<"L", "e", "a", "t", "h", "e", "r", " ", "B", "e", "l", "t">>,
   <<" ", "R", "a", "i", "n", "c", "o", "a", "t", " ">>,
   <<"V", "i", "n", "t", "a", "g", "e", " ", "P", "o", "s", "t", "e", "r">>,
   <<>>}

FormTexts == ListsUpTo(FormSegments, MaxTags)

\* The category arrays of the products of the table.
ProductCategories ==
  {<<>>,
   << <<"R", "a", "i", "n", "c", "o", "a", "t">> >>,
   << <<"V", "i", "n", "t", "a", "g", "e", " ", "P", "o", "s", "t", "e", "r">> >>}

\* The categories of the form after a reset: "General".
General == << <<"G", "e", "n", "e", "r", "a", "l">> >>

\* product.category.join(", "), as the segments between its commas.
JoinedSegments(category) ==
  [i \in 1 .. Len(category) |-> IF i = 1 THEN category[i] ELSE <<" ">> \o category[i]]

\* detectProductCategory on the texts of the form, computed once.
detectedForText ==
  [text \in FormTexts \cup {General} \cup {JoinedSegments(c) : c \in ProductCategories}
     |-> detectProductCategory(SplitTags(text))]

productCategoryDetected(type, categories) == detectedForText[categories]

\* SizeManager: `clothingType ? clothingType : detectProductCategory(categories)`,
\* categories being the text of the form.
productCategory(type, categories) ==
  IF type # "" THEN type ELSE detectedForText[categories]

\* SizeManager: the measurement fields it shows.
measurementFields == getMeasurementFields(productCategory(clothingType, formCategories))

\* The Add Product button.
OpenAddDialog ==
  /\ ~isAddOpen
  /\ isAddOpen' = TRUE
  /\ UNCHANGED <<formCategories, clothingType, detected, lookup>>
  /\ UNCHANGED notSizes

\* onOpenChange of the product dialog: the form keeps its content.
CloseProductDialog ==
  /\ isAddOpen
  /\ isAddOpen' = FALSE
  /\ UNCHANGED <<formCategories, clothingType, detected, lookup>>
  /\ UNCHANGED notSizes

\* openEditProduct on a product of the table.
openEditProduct ==
  /\ ~isAddOpen
  /\ \E category \in ProductCategories :
       LET result == detectProductCategory(category) IN
       /\ detected' = [categories |-> category, result |-> result]
       /\ formCategories' = JoinedSegments(category)
       /\ clothingType' = IF result # "generic" THEN result ELSE ""
  /\ isAddOpen' = TRUE
  /\ UNCHANGED lookup
  /\ UNCHANGED notSizes

\* onChange of the Category input.
EditCategories ==
  /\ isAddOpen
  /\ \E value \in FormTexts :
       LET result == detectedForText[value] IN
       /\ detected' = [categories |-> SplitTags(value), result |-> result]
       /\ formCategories' = value
       /\ clothingType' = IF result # "generic" THEN result ELSE clothingType
  /\ UNCHANGED <<isAddOpen, lookup>>
  /\ UNCHANGED notSizes

\* onValueChange of the Product Type select.
SelectType ==
  /\ isAddOpen
  /\ \E val \in CLOTHING_TYPES : clothingType' = val
  /\ UNCHANGED <<formCategories, isAddOpen, detected, lookup>>
  /\ UNCHANGED notSizes

\* handleAddProduct when the product was saved: the dialog is closed and the
\* form reset.
handleAddProduct ==
  /\ isAddOpen
  /\ isAddOpen' = FALSE
  /\ formCategories' = General
  /\ clothingType' = ""
  /\ UNCHANGED <<detected, lookup>>
  /\ UNCHANGED notSizes

InitSizes ==
  /\ formCategories = General
  /\ clothingType = ""
  /\ isAddOpen = FALSE
  /\ detected = NoDetection
  /\ lookup = NoLookup
  /\ role = "admin"
  /\ assigned = NoLocation
  /\ OrdersIdle
  /\ ScopeIdle
  /\ AuthIdle
  /\ ChannelsIdle
  /\ StockIdle
  /\ CascadeIdle
  /\ ProductIdle
  /\ ManagerIdle

NextSizes ==
  \/ OpenAddDialog \/ CloseProductDialog \/ openEditProduct
  \/ EditCategories \/ SelectType \/ handleAddProduct

SpecSizes == InitSizes /\ [][NextSizes]_vars

(***************************************************************************)
(* Product dialog of the Inventory view: handleAddProduct with saveSizes,  *)
(* and openEditProduct with loadSizes.  The tables hold one product; a     *)
(* size carries two of the fifteen measurement columns, which saveSizes    *)
(* all writes the same way.  The measurements of a size are a function     *)
(* from the columns that are not null to their numbers.                    *)
(***************************************************************************)
SizeNames == { <<"M">>, <<" ", "L">> }

SampleMeasurements ==
  { <<>>,
    ("chest_cm" :> 32),
    ("chest_cm" :> 0),
    ("chest_cm" :> 32) @@ ("waist_cm" :> 0) }

ProductSizes == [size_name : SizeNames, measurements : SampleMeasurements]

\* The lists SizeManager hands to onSizesChange: no name twice.
SizeLists ==
  {l \in ListsUpTo(ProductSizes, Cardinality(SizeNames)) :
     \A i, j \in DOMAIN l : i # j => l[i].size_name # l[j].size_name}

\* `size.<column> || null` on every measurement column: 0 is falsy.
OrNullFields(m) == [k \in {c \in DOMAIN m : m[c] # 0} |-> m[k]]

sizesToInsert(sizes) ==
  {[size_name |-> sizes[i].size_name,
    measurements |-> OrNullFields(sizes[i].measurements)] : i \in DOMAIN sizes}

\* UNIQUE(product_id, size_name) of the product_sizes table.
UniqueSizeName(rows, new) ==
  \A r \in rows, n \in new : r.size_name # n.size_name

\* saveSizes: the delete, whose answer is not looked at, then the insert,
\* whose error is thrown.
saveSizes(rows, sizes, deleteOk, insertOk) ==
  LET afterDelete == IF deleteOk THEN {} ELSE rows
      new == sizesToInsert(sizes)
  IN  IF sizes = <<>> THEN [rows |-> afterDelete, threw |-> FALSE]
      ELSE IF insertOk /\ UniqueSizeName(afterDelete, new)
      THEN [rows |-> afterDelete \cup new, threw |-> FALSE]
      ELSE [rows |-> afterDelete, threw |-> TRUE]

\* newProduct.sizes.map((s) => s.size_name.trim()).filter(Boolean)
sizeNames(sizes) ==
  SelectSeq([i \in DOMAIN sizes |-> trim(sizes[i].size_name)], LAMBDA n : n # <<>>)

\* `sizeNames.length ? sizeNames : null`
SizesColumn(names) ==
  IF Len(names) > 0 THEN [null |-> FALSE, items |-> names] ELSE NullColumn

\* `if (newProduct.sizes.length > 0) await saveSizes(...)`
SizesToSave(sizes) == Len(sizes) > 0

\* `if (newProduct.allowCustomMeasurements !== false)`
FlagToSave(allow) == allow # FALSE

ProductAnswers == {"error", "no_rows", "row"}

\* What follows the write of the products row in both paths: saveSizes, then
\* the update of allow_custom_measurements, whose answer is not looked at.
AfterProductWrite(row, rows, sizes, allow, deleteOk, insertOk, allowOk) ==
  LET saved == IF SizesToSave(sizes) THEN saveSizes(rows, sizes, deleteOk, insertOk)
               ELSE [rows |-> rows, threw |-> FALSE]
      flagged == IF ~saved.threw /\ FlagToSave(allow) /\ allowOk
                 THEN [row EXCEPT !.allow_custom_measurements = allow]
                 ELSE row
  IN  [row |-> flagged, rows |-> saved.rows, threw |-> saved.threw]

\* The form after `setNewProduct({ name: "", ..., sizes: [], ... })`.
ResetForm ==
  /\ newProductSizes' = <<>>
  /\ allowCustomMeasurements' = FALSE

Closure(result) ==
  [result |-> result, sizes |-> newProductSizes, allow |-> allowCustomMeasurements]

\* handleAddProduct with editingProduct set.  The update of the products row
\* is answered with an error, with no row (the row is not the caller's to
\* update) or with the updated row.
handleAddProductEdit ==
  /\ isAddOpen
  /\ editingProduct # NoProduct
  /\ \E answer \in ProductAnswers, deleteOk, insertOk, allowOk \in BOOLEAN :
       LET written == [productRow EXCEPT !.sizes = SizesColumn(sizeNames(newProductSizes))]
           after == AfterProductWrite(written, productSizes, newProductSizes,
                                      allowCustomMeasurements, deleteOk, insertOk, allowOk)
       IN  CASE answer = "error" ->
                  /\ productToast' = BackendMessage
                  /\ productCall' = Closure("product_failed")
                  /\ UNCHANGED <<productRow, productSizes, editingProduct, isAddOpen,
                                 newProductSizes, allowCustomMeasurements>>
             [] answer = "no_rows" ->
                  /\ productToast' = "Product updated"
                  /\ productCall' = Closure("not_saved")
                  /\ editingProduct' = NoProduct
                  /\ isAddOpen' = FALSE
                  /\ ResetForm
                  /\ UNCHANGED <<productRow, productSizes>>
             [] answer = "row" /\ after.threw ->
                  /\ productRow' = after.row
                  /\ productSizes' = after.rows
                  /\ productToast' = BackendMessage
                  /\ productCall' = Closure("sizes_failed")
                  /\ UNCHANGED <<editingProduct, isAddOpen, newProductSizes,
                                 allowCustomMeasurements>>
             [] answer = "row" /\ ~after.threw ->
                  /\ productRow' = after.row
                  /\ productSizes' = after.rows
                  /\ productToast' = "Product updated"
                  /\ productCall' = Closure("saved")
                  /\ editingProduct' = NoProduct
                  /\ isAddOpen' = FALSE
                  /\ ResetForm
  /\ UNCHANGED notProduct

\* handleAddProduct with editingProduct null.  An insert the backend accepts
\* returns the new row, whose allow_custom_measurements is the default.
handleAddProductCreate ==
  /\ isAddOpen
  /\ editingProduct = NoProduct
  /\ ~productRow.exists
  /\ isAddOpen' = FALSE
  /\ \E answer \in {"error", "row"}, deleteOk, insertOk, allowOk \in BOOLEAN :
       LET inserted == [exists |-> TRUE,
                        sizes |-> SizesColumn(sizeNames(newProductSizes)),
                        allow_custom_measurements |-> FALSE]
           after == AfterProductWrite(inserted, productSizes, newProductSizes,
                                      allowCustomMeasurements, deleteOk, insertOk, allowOk)
       IN  CASE answer = "error" ->
                  /\ productToast' = BackendMessage
                  /\ productCall' = Closure("product_failed")
                  /\ UNCHANGED <<productRow, productSizes, newProductSizes,
                                 allowCustomMeasurements>>
             [] answer = "row" /\ after.threw ->
                  /\ productRow' = after.row
                  /\ productSizes' = after.rows
                  /\ productToast' = BackendMessage
                  /\ productCall' = Closure("sizes_failed")
                  /\ UNCHANGED <<newProductSizes, allowCustomMeasurements>>
             [] answer = "row" /\ ~after.threw ->
                  /\ productRow' = after.row
                  /\ productSizes' = after.rows
                  /\ productToast' = "Product created"
                  /\ productCall' = Closure("saved")
                  /\ ResetForm
  /\ UNCHANGED editingProduct
  /\ UNCHANGED notProduct

\* The orders in which a select without an order clause returns the rows.
Orderings(rows) ==
  {l \in ListsUpTo(rows, Cardinality(rows)) :
     Len(l) = Cardinality(rows) /\ {l[i] : i \in DOMAIN l} = rows}

\* loadSizes: the rows of the product, or [] when the select fails.
loadSizes(ok) == IF ok THEN Orderings(productSizes) ELSE {<<>>}

\* openEditProduct on the row of the list, which shows the table.
openEditProductSizes ==
  /\ ~isAddOpen
  /\ productRow.exists
  /\ editingProduct' = ProductId
  /\ \E ok \in BOOLEAN :
       /\ newProductSizes' \in loadSizes(ok)
       /\ productCall' = [productCall EXCEPT !.result =
                            IF ok /\ productCall.result = "saved" THEN "loaded" ELSE "none"]
  /\ allowCustomMeasurements' = productRow.allow_custom_measurements
  /\ isAddOpen' = TRUE
  /\ UNCHANGED <<productRow, productSizes, productToast>>
  /\ UNCHANGED notProduct

\* The Add Product button: `setIsAddOpen(true)`.
AddProductButton ==
  /\ ~isAddOpen
  /\ isAddOpen' = TRUE
  /\ productCall' = NoCall
  /\ UNCHANGED <<productRow, productSizes, editingProduct, newProductSizes,
                 allowCustomMeasurements, productToast>>
  /\ UNCHANGED notProduct

\* onOpenChange of the product dialog.
DismissProductDialog ==
  /\ isAddOpen
  /\ isAddOpen' = FALSE
  /\ productCall' = NoCall
  /\ UNCHANGED <<productRow, productSizes, editingProduct, newProductSizes,
                 allowCustomMeasurements, productToast>>
  /\ UNCHANGED notProduct

\* onSizesChange of the SizeManager in the dialog.
onSizesChange ==
  /\ isAddOpen
  /\ \E sizes \in SizeLists : newProductSizes' = sizes
  /\ productCall' = NoCall
  /\ UNCHANGED <<productRow, productSizes, editingProduct, allowCustomMeasurements,
                 isAddOpen, productToast>>
  /\ UNCHANGED notProduct

\* onAllowCustomChange of the SizeManager in the dialog.
onAllowCustomChange ==
  /\ isAddOpen
  /\ allowCustomMeasurements' = ~allowCustomMeasurements
  /\ productCall' = NoCall
  /\ UNCHANGED <<productRow, productSizes, editingProduct, newProductSizes,
                 isAddOpen, productToast>>
  /\ UNCHANGED notProduct

InitProduct ==
  /\ productRow = NoProductRow
  /\ productSizes = {}
  /\ editingProduct = NoProduct
  /\ newProductSizes = <<>>
  /\ allowCustomMeasurements = FALSE
  /\ productCall = NoCall
  /\ productToast = "none"
  /\ isAddOpen = FALSE
  /\ formCategories = General
  /\ clothingType = ""
  /\ detected = NoDetection
  /\ lookup = NoLookup
  /\ role = "admin"
  /\ assigned = NoLocation
  /\ OrdersIdle
  /\ ScopeIdle
  /\ AuthIdle
  /\ ChannelsIdle
  /\ StockIdle
  /\ CascadeIdle
  /\ ManagerIdle

NextProduct ==
  \/ AddProductButton \/ DismissProductDialog
  \/ onSizesChange \/ onAllowCustomChange
  \/ handleAddProductCreate \/ handleAddProductEdit
  \/ openEditProductSizes

SpecProduct == InitProduct /\ [][NextProduct]_vars

(***************************************************************************)
(* SizeManager on the `sizes` of the product dialog.  The list is a        *)
(* JavaScript array: an assignment past its end leaves empty slots, which  *)
(* map, some and filter skip and which a spread turns into undefined.      *)
(* The sizes carry no measurement here.                                    *)
(***************************************************************************)
TypedNames == { <<>>, <<" ">>, <<"M">>, <<"m">>, <<"L">> }

Hole == [hole |-> TRUE]

UndefinedEntry == [undefined |-> TRUE]

NamedSize(name) == [size_name |-> name, measurements |-> <<>>]

IsSize(entry) == entry # Hole /\ entry # UndefinedEntry

\* The render of the table reads size.size_name of every slot that is not
\* empty: it throws on undefined.
Renders(sizes) == \A i \in DOMAIN sizes : sizes[i] # UndefinedEntry

\* [...sizes]
Spread(sizes) ==
  [i \in DOMAIN sizes |-> IF sizes[i] = Hole THEN UndefinedEntry ELSE sizes[i]]

\* updated[index] = value
SetAt(array, index, value) ==
  [i \in 1 .. (IF index > Len(array) THEN index ELSE Len(array)) |->
     IF i = index THEN value
     ELSE IF i <= Len(array) THEN array[i]
     ELSE Hole]

\* sizes.filter((_, i) => i !== index)
FilterIndex(sizes, index) ==
  LET kept == SelectSeq([i \in DOMAIN sizes |-> i],
                        LAMBDA i : i # index /\ sizes[i] # Hole)
  IN  [j \in DOMAIN kept |-> sizes[kept[j]]]

\* The duplicate check of handleAdd with the names compared as typed.
isDuplicateExact(sizes, name, editing) ==
  \E idx \in DOMAIN sizes :
    /\ sizes[idx] # Hole
    /\ sizes[idx].size_name = name
    /\ {idx} # editing

\* sizes.some((s, idx) => s.size_name.toLowerCase() ===
\*   formData.size_name.toLowerCase() && idx !== editingIndex)
isDuplicate(sizes, name, editing) ==
  \E idx \in DOMAIN sizes :
    /\ sizes[idx] # Hole
    /\ toLowerCase(sizes[idx].size_name) = toLowerCase(name)
    /\ {idx} # editing

\* resetForm
resetForm ==
  /\ formData' = NoFormData
  /\ editingIndex' = NoIndex

\* The Add Size button: `setIsOpen(true)`.
AddSizeButton ==
  /\ Renders(newProductSizes)
  /\ ~isOpen
  /\ isOpen' = TRUE
  /\ openedWith' = "add"
  /\ UNCHANGED <<newProductSizes, editingIndex, formData, managerToast>>
  /\ UNCHANGED notManager

\* handleEdit on a row of the table.
handleEdit ==
  /\ Renders(newProductSizes)
  /\ ~isOpen
  /\ \E index \in DOMAIN newProductSizes :
       /\ newProductSizes[index] # Hole
       /\ formData' = newProductSizes[index]
       /\ editingIndex' = {index}
  /\ isOpen' = TRUE
  /\ openedWith' = "edit"
  /\ UNCHANGED <<newProductSizes, managerToast>>
  /\ UNCHANGED notManager

\* handleDelete on a row of the table.
handleDelete ==
  /\ Renders(newProductSizes)
  /\ ~isOpen
  /\ \E index \in DOMAIN newProductSizes :
       /\ newProductSizes[index] # Hole
       /\ newProductSizes' = FilterIndex(newProductSizes, index)
  /\ managerToast' = "Size removed"
  /\ UNCHANGED <<isOpen, editingIndex, formData, openedWith>>
  /\ UNCHANGED notManager

\* The Cancel button and onOpenChange of the size dialog: `setIsOpen(false)`.
CancelSize ==
  /\ isOpen
  /\ isOpen' = FALSE
  /\ UNCHANGED <<newProductSizes, editingIndex, formData, openedWith, managerToast>>
  /\ UNCHANGED notManager

\* onChange of the Size Name input.
TypeSizeName ==
  /\ isOpen
  /\ \E name \in TypedNames : formData' = [formData EXCEPT !.size_name = name]
  /\ UNCHANGED <<newProductSizes, isOpen, editingIndex, openedWith, managerToast>>
  /\ UNCHANGED notManager

\* handleAdd, the button that confirms the size dialog.
handleAdd ==
  /\ isOpen
  /\ IF trim(formData.size_name) = <<>>
     THEN /\ managerToast' = "Size name is required"
          /\ UNCHANGED <<newProductSizes, isOpen, editingIndex, formData>>
     ELSE IF isDuplicate(newProductSizes, formData.size_name, editingIndex)
     THEN /\ managerToast' = "Size already exists"
          /\ UNCHANGED <<newProductSizes, isOpen, editingIndex, formData>>
     ELSE /\ IF editingIndex # NoIndex
             THEN /\ newProductSizes' =
                       SetAt(Spread(newProductSizes),
                             CHOOSE index \in editingIndex : TRUE, formData)
                  /\ managerToast' = "Size updated"
             ELSE /\ newProductSizes' = Append(Spread(newProductSizes), formData)
                  /\ managerToast' = "Size added"
          /\ resetForm
          /\ isOpen' = FALSE
  /\ UNCHANGED openedWith
  /\ UNCHANGED notManager

\* The lists the product dialog hands to SizeManager when it opens: empty
\* for a new product, the rows of the product for an edit.
LoadedLists ==
  {l \in ListsUpTo({NamedSize(<<"M">>), NamedSize(<<"L">>)}, 2) :
     \A i, j \in DOMAIN l : i # j => l[i] # l[j]}

InitSizeManager ==
  /\ newProductSizes \in LoadedLists
  /\ isOpen = FALSE
  /\ editingIndex = NoIndex
  /\ formData = NoFormData
  /\ openedWith = "none"
  /\ managerToast = "none"
  /\ productRow = NoProductRow
  /\ productSizes = {}
  /\ editingProduct = NoProduct
  /\ allowCustomMeasurements = FALSE
  /\ productCall = NoCall
  /\ productToast = "none"
  /\ role = "admin"
  /\ assigned = NoLocation
  /\ OrdersIdle
  /\ ScopeIdle
  /\ AuthIdle
  /\ ChannelsIdle
  /\ StockIdle
  /\ CascadeIdle
  /\ SizesIdle

NextSizeManager ==
  \/ AddSizeButton \/ handleEdit \/ handleDelete
  \/ CancelSize \/ TypeSizeName \/ handleAdd

SpecSizeManager == InitSizeManager /\ [][NextSizeManager]_vars

(***************************************************************************)
(* SpecRollback.  One Orders or Logistics view of an admin on a table of   *)
(* two orders, both with the last button the view offers for them; no     *)
(* other client writes the table and the view is not refreshed by hand.    *)
(***************************************************************************)
TwoOrders == {"o1", "o2"}

InitRollback ==
  /\ kind \in {"orders", "logistics"}
  /\ role = "admin"
  /\ table = [o \in TwoOrders |->
                [status |-> IF kind = "orders" THEN "ready" ELSE "packed",
                 fulfillment_type |-> "pickup"]]
  /\ orders = {}
  /\ tasks = {}
  /\ loading = TRUE
  /\ updating = {}
  /\ writes = EmptyBag
  /\ fetches = SetToBag({[phase |-> "sent", rows |-> {}]})
  /\ events = FALSE
  /\ toast = "none"
  /\ assigned = NoLocation
  /\ ScopeIdle
  /\ AuthIdle
  /\ ChannelsIdle
  /\ LaterIdle

NextRollback ==
  \/ OrdersChannelEvent
  \/ LogisticsChannelEvent
  \/ \E id \in TwoOrders : updateStatus(id)
  \/ \E id \in TwoOrders : handleCompleteTask(id)
  \/ \E fetch \in BagToSet(fetches) : fetchOrdersDone(fetch)
  \/ \E fetch \in BagToSet(fetches) : loadLogisticsDone(fetch)
  \/ \E write \in BagToSet(writes) : updateStatusDone(write)
  \/ \E write \in BagToSet(writes) : handleCompleteTaskDone(write)
  \/ \E fetch \in BagToSet(fetches) : BackendSelect(fetch)
  \/ \E write \in BagToSet(writes) : BackendUpdate(write)

SpecRollback == InitRollback /\ [][NextRollback]_vars

(***************************************************************************)
(* SpecOptimistic.  The stock dialog of an admin up to the optimistic      *)
(* update of handleUpdateStock, on a product with two sizes that is        *)
(* stocked at two locations; the view has loaded the table.  The dialog    *)
(* is used for the one location of StockLocations.                         *)
(***************************************************************************)
StockedLocations == {"loc-42", "loc-7"}

StockedSizes == {"M", "L"}

StockedRows == [location_id : StockedLocations, size_name : StockedSizes, quantity : {2}]

InitOptimistic ==
  /\ role = "admin"
  /\ assigned = NoLocation
  /\ dbStock \in SUBSET StockedRows
  /\ dbProduct = [is_archived |-> (dbStock = {}), sizes |-> StockedSizes]
  /\ invProducts = {DbProductView}
  /\ invLoading = FALSE
  /\ selectedProduct = NoSelection
  /\ isStockOpen = FALSE
  /\ stockForm = [location_id |-> "", quantity |-> 0, size_name |-> ""]
  /\ saving = FALSE
  /\ updatingProducts = {}
  /\ stockCall = IdleCall
  /\ stockFetches = EmptyBag
  /\ stockToast = "none"
  /\ OrdersIdle
  /\ ScopeIdle
  /\ AuthIdle
  /\ ChannelsIdle
  /\ CascadeIdle
  /\ SizesIdle
  /\ ProductIdle
  /\ ManagerIdle

NextOptimistic ==
  \/ openStockDialog \/ CloseStockDialog
  \/ SelectLocation \/ SelectSize \/ SetQuantity
  \/ handleUpdateStock

SpecOptimistic == InitOptimistic /\ [][NextOptimistic]_vars

(***************************************************************************)
(* Claims on SpecOrders.                                                   *)
(***************************************************************************)
\* The transition table of the order state machine: the status that may
\* follow, NoAction for a pair the table does not hold.
AllowedNext(status, fulfillment_type) ==
  IF status = "paid" THEN "packed"
  ELSE IF status = "packed" /\ fulfillment_type = "courier" THEN "transit"
  ELSE IF status = "packed" /\ fulfillment_type = "pickup" THEN "ready"
  ELSE IF status = "transit" /\ fulfillment_type = "courier" THEN "delivered"
  ELSE IF status = "ready" /\ fulfillment_type = "pickup" THEN "collected"
  ELSE NoAction

Terminal == {"delivered", "collected", "pos_complete"}

InFlight(id) == {w \in BagToSet(writes) : w.id = id}

\* C1: every status write a view issues for an order it shows with status s
\* and fulfillment type f writes the status the transition table allows
\* after (s, f); for a pair outside the table no write is issued.
C1_WritesFollowTable ==
  \A w \in BagToSet(writes) :
    w.status = AllowedNext(w.shown, table[w.id].fulfillment_type)

\* C2: once the stored status of an order is delivered, collected or
\* pos_complete, no step changes it.
C2_TerminalIsFinal ==
  [][\A id \in OrderIds :
       table[id].status \in Terminal => table'[id].status = table[id].status]_vars

\* C3 as stated: a courier order shown as packed offers exactly the action
\* that writes transit, shown as transit it offers exactly the action that
\* writes delivered (in the Logistics view, none in the Orders view), and a
\* write of delivered comes from a user whose role is driver.
C3_DeliveredByDriverOnly ==
  /\ \A o \in Displayed :
       o.fulfillment_type = "courier" =>
         /\ o.status = "packed" => OfferedActions(o.id) = {"transit"}
         /\ o.status = "transit" =>
              OfferedActions(o.id) = IF kind = "logistics" THEN {"delivered"} ELSE {}
  /\ \A w \in BagToSet(writes) : w.status = "delivered" => role = "driver"

\* C3 amended: as above, and a write of delivered comes from a user whose
\* role is driver or admin, never from a manager or a customer.
C3_DeliveredByDriverOrAdmin ==
  /\ \A o \in Displayed :
       o.fulfillment_type = "courier" =>
         /\ o.status = "packed" => OfferedActions(o.id) = {"transit"}
         /\ o.status = "transit" =>
              OfferedActions(o.id) = IF kind = "logistics" THEN {"delivered"} ELSE {}
  /\ \A w \in BagToSet(writes) :
       w.status = "delivered" => kind = "logistics" /\ role \in {"driver", "admin"}

\* A driver has clicked Delivered on a courier order in transit.
C3_Witness ==
  /\ role = "driver"
  /\ \E w \in BagToSet(writes) :
       /\ w.status = "delivered"
       /\ w.shown = "transit"
       /\ table[w.id].fulfillment_type = "courier"

\* C4: the task list never holds an order other than a courier order in
\* transit or a packed pickup order, and the step that completes a load sets
\* it to exactly the fetched orders of these two shapes.
C4_IsDriverTask(o) ==
  \/ o.fulfillment_type = "courier" /\ o.status = "transit"
  \/ o.fulfillment_type = "pickup" /\ o.status = "packed"

C4_TaskListIsDriverTasks ==
  /\ [](\A task \in tasks : C4_IsDriverTask(task))
  /\ [][\A fetch \in BagToSet(fetches) :
          (kind = "logistics" /\ fetch.phase = "data"
             /\ CopiesIn(fetch, fetches') < CopiesIn(fetch, fetches))
            => tasks' = {o \in fetch.rows : C4_IsDriverTask(o)}]_vars

\* A load of the Logistics view has completed and has left a task in the
\* list.
C4_Witness ==
  /\ kind = "logistics"
  /\ ~loading
  /\ tasks # {}
  /\ fetches = EmptyBag

\* C5: the step that handles a failed status write leaves the order shown
\* with the status it had when the write was issued (a task is back in the
\* list), shows the error toast and issues no request.
C5_FailedWriteIsRolledBack ==
  [][\A write \in BagToSet(writes) :
       (write.phase \in {"error", "thrown"}
          /\ CopiesIn(write, writes') < CopiesIn(write, writes))
         => /\ \E o \in Displayed' : o.id = write.id /\ o.status = write.shown
            /\ \A o \in Displayed' : o.id = write.id => o.status = write.shown
            /\ toast' = "Failed to update status"
            /\ writes' = Take(writes, write)
            /\ fetches' = fetches]_vars

\* A failed write has been handled: the error is shown and nothing is in
\* flight.
C5_Witness ==
  /\ toast = "Failed to update status"
  /\ writes = EmptyBag
  /\ Displayed # {}

\* C10: an order has at most one status write of the view in flight, its id
\* is in the updating set (its button is disabled) exactly while a write for
\* it is in flight.
C10_OneWriteInFlight ==
  \A id \in OrderIds :
    /\ BagCardinality([w \in InFlight(id) |-> writes[w]]) <= 1
    /\ hasUpdatingId(id) <=> InFlight(id) # {}

\* A write is in flight and the button of its order is disabled.
C10_Witness ==
  \E w \in BagToSet(writes) : w.phase = "sent" /\ hasUpdatingId(w.id)

(***************************************************************************)
(* Claims on SpecScope.                                                    *)
(***************************************************************************)
\* The rows a manager has received from the Orders view, the Dashboard and
\* the location list of the Inventory view are rows of the store `store`.
C6_OnlyRowsOf(store) ==
  /\ \A r \in ordersReceived : r.pickup_location_id = store
  /\ \A r \in stats.q1 \cup stats.q2 \cup stats.q4 \cup stats.logs :
       r.pickup_location_id = store
  /\ \A r \in stats.q3 : "location_id" \in DOMAIN r /\ r.location_id = store
  /\ \A l \in locations : l.id = store

\* C6: for a manager every fetched row is a row of the assigned location,
\* and with no assigned location (no row is a row of it) nothing is fetched.
C6_ManagerQueriesScoped == role = "manager" => C6_OnlyRowsOf(assigned)

\* C7: in the Inventory view a manager with an assigned location has
\* received only inventory rows of that location, and an admin has received
\* every inventory row of every product.
C7_InventoryRowsByRole ==
  "Inventory" \in loaded =>
    /\ (role = "manager" /\ assigned # NoLocation) =>
         \A p \in products : \A inv \in p.inventory : inv.location_id = assigned
    /\ role = "admin" =>
         UNION {p.inventory : p \in products} = dbInventory

\* C7 read on what the Stock Breakdown cell shows: a manager is shown only
\* rows of the assigned location, an admin is shown every inventory row.
C7_ShownRowsByRole ==
  "Inventory" \in loaded =>
    /\ (role = "manager" /\ assigned # NoLocation) =>
         \A p \in products : \A inv \in StockBreakdown(p) : inv.location_id = assigned
    /\ role = "admin" =>
         UNION {StockBreakdown(p) : p \in products} = dbInventory

(***************************************************************************)
(* Claims on SpecAuth.                                                     *)
(***************************************************************************)
\* C8: while the dashboard is rendered for a session, the profile of the
\* session is resolved and its role is admin, manager or driver; a session
\* whose profile has failed to resolve, or is a customer, is signed out and
\* sees no dashboard page.
C8_NoDashboardWithoutStaffProfile ==
  DashboardLayout = "dashboard" => role \in {"admin", "manager", "driver"}

(***************************************************************************)
(* Claims on SpecChannels.                                                 *)
(***************************************************************************)
\* The channels a view holds open, and the channels it has ever opened.
OpenChannels(view) == {c \in channels : c[1] = view}

OpenedChannels(view) == {<<view, n>> : n \in 1..opened[view]}

\* C9: a mounted view holds exactly one open channel (the Logistics view
\* without access holds none), a view that is not mounted holds none, and
\* every channel a view has opened is either open and never removed or
\* closed and removed exactly once.
C9_OneChannelRemovedOnce ==
  \A view \in Views :
    /\ Cardinality(OpenChannels(view)) =
         IF mounted[view] /\ Subscribes(view, role) THEN 1 ELSE 0
    /\ OpenChannels(view) \subseteq OpenedChannels(view)
    /\ \A c \in OpenedChannels(view) :
         CopiesIn(c, removed) = IF c \in channels THEN 0 ELSE 1

\* A view has been through a change of its dependencies and an unmount:
\* it is not mounted and two channels of it have been removed.
C9_Witness ==
  \E view \in Views :
    /\ ~mounted[view]
    /\ opened[view] >= 2
    /\ \A c \in OpenedChannels(view) : CopiesIn(c, removed) = 1

(***************************************************************************)
(* Claims on SpecStock.                                                    *)
(***************************************************************************)
\* The rows of the triple (product, location, size_name) of a stock form.
TripleRows(rows, form) ==
  {r \in rows : r.location_id = form.location_id /\ r.size_name = OrNull(form.size_name)}

\* The step of handleUpdateStock in which the backend has run its write.
StockWritten == stockCall.pc = "write_sent" /\ stockCall'.pc = "select_sent"

\* C11: a stock update with quantity 0 deletes the row of its (product,
\* location, size_name) triple, a null size_name included, leaves every other
\* row in place and stores no row with quantity 0.
C11_ZeroQuantityDeletesRow ==
  [][(StockWritten /\ stockCall.form.quantity = 0)
       => /\ TripleRows(dbStock', stockCall.form) = {}
          /\ dbStock' = dbStock \ TripleRows(dbStock, stockCall.form)
          /\ \A r \in dbStock' : r.quantity # 0]_vars

\* The step in which handleUpdateStock ends with every backend call of its
\* archive check accepted: the select was answered, and the flag either
\* needed no write or was written.
StockUpdateEnded ==
  \/ StockSelectDone /\ stockCall'.pc = "idle"
  \/ StockArchiveDone /\ dbProduct'.is_archived = stockCall.value

\* C12: when a stock update that deleted the last inventory row of the
\* product ends, the stored is_archived is true; when one that added a row
\* ends, the stored is_archived is false; whatever the flag of the product
\* the dialog was opened with.
C12_ArchiveFlagFollowsRows ==
  [][StockUpdateEnded
       => /\ (stockCall.effect = "deleted" /\ dbStock' = {}) => dbProduct'.is_archived
          /\ (stockCall.effect = "added") => ~dbProduct'.is_archived]_vars

\* No handler of the view has a backend call in flight.
Quiescent == stockCall.pc = "idle" /\ stockFetches = EmptyBag

\* The step in which handleUpdateStock ends after a write that added a row.
StockAddEnded ==
  stockCall.pc # "idle" /\ stockCall'.pc = "idle" /\ stockCall.effect = "added"

\* C13: in every state with no operation in flight, reached by stock
\* updates, archive toggles and location deletions, a product with no
\* inventory row is archived, and a product that gained a row by a stock
\* update is not archived when that update has ended.
C13_QuiescentArchiveInvariant ==
  [][/\ (Quiescent' /\ dbStock' = {}) => dbProduct'.is_archived
     /\ StockAddEnded => ~dbProduct'.is_archived]_vars

\* The step in which handleUpdateStock handles the rejection of its delete or
\* upsert: it is the only step that ends a call whose write is awaited.
StockRejectionHandled == stockCall.pc = "write_sent" /\ stockCall'.pc = "idle"

\* C14: when the delete or upsert of handleUpdateStock is rejected, the local
\* product list is the list from before the optimistic update, an error
\* message is shown, the stored archive flag and the inventory rows are left
\* alone, no archive check is started, and the saving flag and the product's
\* entry in the updating set are cleared.
C14_RejectedWriteIsRolledBack ==
  [][StockRejectionHandled
       => /\ invProducts' = stockCall.previous
          /\ stockToast' = "backend error message"
          /\ dbProduct' = dbProduct
          /\ dbStock' = dbStock
          /\ saving' = FALSE
          /\ ProductId \notin updatingProducts']_vars

\* A manager (who has no archive button) is shown the error of a rejected
\* write with the dialog still open, the optimistic entry gone again.
C14_Witness ==
  /\ role = "manager"
  /\ stockToast = "backend error message"
  /\ stockCall.pc = "idle"
  /\ isStockOpen
  /\ stockForm.quantity = 1
  /\ ~saving
  /\ updatingProducts = {}
  /\ \E p \in invProducts : p.inventory = {}

(***************************************************************************)
(* Claims on SpecCascade.                                                  *)
(***************************************************************************)
\* The step of the cascade an error message names, 0 when it names none.
NamedStep(message) ==
  CASE message = "Failed to clear orders: backend error message" -> 1
    [] message = "Failed to clear inventory: backend error message" -> 2
    [] message = "Failed to clear profiles: backend error message" -> 3
    [] message = "Delete failed: {}" -> 4
    [] OTHER -> 0

\* The step in which handleDeleteLocation ends without having deleted.
CascadeAborted ==
  cascade.step \in 1 .. 4 /\ cascade'.step = 0 /\ cascadeToast' # "has been deleted."

\* The tables as a whole.
CascadeTables == <<dbLocationIds, refOrders, refInventory, refProfiles>>

\* The steps of the cascade run in the order orders, inventory, profiles,
\* location, each on its own table.
CascadeInOrder ==
  /\ cascade'.step # cascade.step
       => cascade'.step \in {0, cascade.step + 1} /\ cascade'.step <= 4
  /\ cascade'.step = cascade.step + 1 /\ cascade.step >= 1
       => /\ CascadeSteps[cascade.step] = "orders" <=> cascade.step = 1
          /\ CascadeSteps[cascade.step] = "inventory" <=> cascade.step = 2
          /\ CascadeSteps[cascade.step] = "profiles" <=> cascade.step = 3
          /\ cascade.step # 1 => refOrders' = refOrders
          /\ cascade.step # 2 => refInventory' = refInventory
          /\ cascade.step # 3 => refProfiles' = refProfiles
          /\ cascade.id \notin (CASE cascade.step = 1 -> refOrders'
                                  [] cascade.step = 2 -> refInventory'
                                  [] cascade.step = 3 -> refProfiles')
          /\ dbLocationIds' = dbLocationIds

\* What holds when step k has failed, the message apart.
CascadeAbortKeeps ==
  CascadeAborted
    => /\ cascade' = IdleCascade
       /\ CascadeTables' = CascadeTables
       /\ cascade.id \in dbLocationIds'
       /\ storeList' = storeList
       /\ deleteDialogOpen' = deleteDialogOpen
       /\ locationToDelete' = locationToDelete

\* C15: handleDeleteLocation runs its steps in the order orders, inventory,
\* profiles, location; when step k fails no later step runs, the location
\* row and its local entry remain, the dialog is left as it is, nothing
\* done before is undone, and the error shown names step k.
C15_AbortNamesFailedStep ==
  [][/\ CascadeInOrder
     /\ CascadeAbortKeeps
     /\ CascadeAborted => NamedStep(cascadeToast') = cascade.step]_vars

\* The locations some row of orders, inventory or profiles refers to.
ReferredTo == refOrders \cup refInventory \cup refProfiles

CascadeTypeOK == ReferredTo \subseteq dbLocationIds

(***************************************************************************)
(* Claims on SpecAuth (continued).                                         *)
(***************************************************************************)
\* The step in which fetchProfile handles a failed profile request.
ProfileFailureHandled ==
  \E fetch \in BagToSet(profileFetches) :
    /\ fetch.phase \in {"error", "thrown"}
    /\ profileFetches' = Take(profileFetches, fetch)

\* The toasts that are not error messages.
QuietToasts == {"none", "Logged out"}

\* C17: a failed backend call ends with an error message shown to the user;
\* here the profile request of fetchProfile.
C17_FailedCallShowsError ==
  [][ProfileFailureHandled => authToast' \notin QuietToasts]_vars

(***************************************************************************)
(* Claims on SpecSizeConfig.                                               *)
(***************************************************************************)
\* The rules of the claim, in their order, with the keywords of each.
RuleOrder == <<"shirts", "pants", "shoes", "belts", "dresses", "jackets", "perfumes">>

RuleKeywords ==
  <<{Keyword.shirt, Keyword.top, Keyword.tee, Keyword.blouse},
    {Keyword.pant, Keyword.jean, Keyword.trouser, Keyword.legging},
    {Keyword.shoe, Keyword.sneaker},
    {Keyword.belt, Keyword.accessory},
    {Keyword.dress, Keyword.skirt, Keyword.gown},
    {Keyword.jacket, Keyword.coat, Keyword.blazer},
    {Keyword.perfume, Keyword.fragrance, Keyword.cologne, Keyword.scent}>>

\* Two characters are the same letter, whatever their case.
SameLetter(a, b) == a = b \/ \E k \in 1 .. 26 : {a, b} = {UpperCase[k], LowerCase[k]}

\* The keyword occurs in the tag, case apart.
OccursIn(keyword, tag) ==
  \E i \in 1 .. (Len(tag) - Len(keyword) + 1) :
    \A j \in 1 .. Len(keyword) : SameLetter(tag[i + j - 1], keyword[j])

\* The rules that have a keyword occurring in some tag of the list.
MatchingRules(tags) ==
  {r \in 1 .. 7 : \E keyword \in RuleKeywords[r] :
                    \E t \in 1 .. Len(tags) : OccursIn(keyword, tags[t])}

FirstRule(tags) ==
  IF tags = Undefined \/ MatchingRules(tags) = {} THEN "generic"
  ELSE RuleOrder[CHOOSE r \in MatchingRules(tags) : \A q \in MatchingRules(tags) : r <= q]

\* The examples of the size system guide.
GuideExamples ==
  /\ detectProductCategory(<< <<"R","u","n","n","i","n","g"," ","S","n","e","a","k","e","r","s">> >>)
       = "shoes"
  /\ detectProductCategory(<< <<"L","e","a","t","h","e","r"," ","B","e","l","t">>,
                              <<"A","c","c","e","s","s","o","r","i","e","s">> >>) = "belts"
  /\ detectProductCategory(<< <<"V","i","n","t","a","g","e"," ","P","o","s","t","e","r">> >>)
       = "generic"

\* FirstRule on the inputs, computed once.
firstRuleFor == [c \in DetectInputs |-> FirstRule(c)]

C19_UnknownKeyLookedUp ==
  lookup.category = "hats" /\ lookup.fields = SIZE_CATEGORIES.generic

(***************************************************************************)
(* Claims on SpecSizes.                                                    *)
(***************************************************************************)
\* The category detected from the tags the form holds.
DetectedFromTags == detectProductCategory(SplitTags(formCategories))

LoadedAfterSave == productCall.result = "saved" /\ productCall'.result = "loaded"

\* C21: every size that saveSizes has saved is among the sizes that loadSizes
\* returns next for the product, with the same size_name and the same
\* measurement columns that are not null, each with the same number, 0
\* included.
C21_SaveLoadRoundTrip ==
  [][LoadedAfterSave =>
       \A i \in DOMAIN productCall.sizes :
         \E j \in DOMAIN newProductSizes' : newProductSizes'[j] = productCall.sizes[i]]_vars

\* handleAddProduct has ended in the throw of saveSizes.
SaveSizesFailed == productCall'.result = "sizes_failed"

\* C27: when saveSizes fails, every product_sizes row the product had before
\* the save is still stored after it.
C27_FailedSaveKeepsRows ==
  [][SaveSizesFailed => productSizes \subseteq productSizes']_vars

\* handleAddProduct has ended with its success toast after it wrote the row.
ProductSaved == productCall'.result = "saved"

StoredSizeNames(rows) == {r.size_name : r \in rows}

ListedSizeNames(row) == {row.sizes.items[i] : i \in DOMAIN row.sizes.items}

\* C28: after a successful handleAddProduct the sizes list of the product
\* holds exactly the size names of its product_sizes rows.
C28_SizesListMatchesRows ==
  [][ProductSaved => ListedSizeNames(productRow') = StoredSizeNames(productSizes')]_vars

\* C29: after a successful handleAddProduct the stored
\* allow_custom_measurements is the value the checkbox of the form had when
\* the product was saved.
C29_StoredFlagIsCheckbox ==
  [][ProductSaved =>
       productRow'.allow_custom_measurements = allowCustomMeasurements]_vars

(***************************************************************************)
(* Claims on SpecSizeManager.                                              *)
(***************************************************************************)
NoDuplicateNames ==
  \A i, j \in DOMAIN newProductSizes :
    (i # j /\ IsSize(newProductSizes[i]) /\ IsSize(newProductSizes[j]))
      => toLowerCase(newProductSizes[i].size_name)
           # toLowerCase(newProductSizes[j].size_name)

\* The size dialog holds a name that is blank, or that another entry of the
\* list has in some case.
NotAcceptable ==
  /\ isOpen
  /\ \/ trim(formData.size_name) = <<>>
     \/ isDuplicate(newProductSizes, formData.size_name, editingIndex)

\* A step that is neither typing nor closing the dialog: the confirm button.
ConfirmPressed == isOpen /\ isOpen' /\ formData' = formData

\* C22: the size list never holds two entries with the same name compared
\* case-insensitively; confirming the dialog with a blank name or with the
\* name of another entry shows an error toast, and no step taken with such a
\* name in the dialog changes the list.
C22_UniqueSizeNames ==
  /\ []NoDuplicateNames
  /\ [][NotAcceptable =>
          /\ newProductSizes' = newProductSizes
          /\ ConfirmPressed =>
               managerToast' \in {"Size name is required", "Size already exists"}]_vars

\* The name "m" was refused while the list holds "M", and the name "M" was
\* stored by an edit or an add before.
C22_Witness ==
  /\ managerToast = "Size already exists"
  /\ isOpen
  /\ formData.size_name = <<"m">>
  /\ \E i \in DOMAIN newProductSizes :
       IsSize(newProductSizes[i]) /\ newProductSizes[i].size_name = <<"M">>
  /\ Len(newProductSizes) > 1

\* handleAdd has accepted the dialog: it closes and the form is reset.
SizeConfirmed == isOpen /\ ~isOpen' /\ formData' # formData

\* C30: confirming a dialog that the Add Size button opened appends one entry
\* and keeps every size the list held.
C30_AddButtonAppends ==
  [][(openedWith = "add" /\ SizeConfirmed) =>
       /\ Len(newProductSizes') = Len(newProductSizes) + 1
       /\ \A i \in DOMAIN newProductSizes :
            IsSize(newProductSizes[i]) =>
              \E j \in DOMAIN newProductSizes' : newProductSizes'[j] = newProductSizes[i]]_vars

(***************************************************************************)
(* Claims on SpecAuth (the profile and the session).                       *)
(***************************************************************************)
\* The callbacks of getSession and of onAuthStateChange have handled all the
\* auth client has told them.
AuthEventsHandled == gotSession /\ ~authEvent

\* C23: once the auth events are handled, a profile that AuthProvider holds
\* is the profiles row of the user it holds: after a handled sign-out (user
\* is null) the profile is null, whatever profile request resolves afterwards.
C23_ProfileOfCurrentUser ==
  (AuthEventsHandled /\ role # NoProfile) => (user # NoSession /\ role = profileRow)

(***************************************************************************)
(* Claims on SpecOrders (fetches and rollbacks).                           *)
(***************************************************************************)
\* What the query of the view returns on the table as it is.
BackendView ==
  IF kind = "orders" THEN OrdersQuery(isAdmin, assigned, AllRows)
  ELSE visibleTasks(LogisticsQuery(AllRows))

\* The view applies the rows of the only fetch it has in flight, with no
\* change event waiting and no write of its own in flight.
LastFetchApplied ==
  /\ \E fetch \in BagToSet(fetches) :
       fetch.phase = "data" /\ fetches = SetToBag({fetch})
  /\ fetches' = EmptyBag
  /\ ~events
  /\ writes = EmptyBag

\* C25: when the last fetch in flight resolves and no change event is
\* waiting, the list the view displays is what its query returns on the
\* table as it is then, in whatever order the responses arrived.
C25_LastResponseIsCurrent ==
  [][LastFetchApplied => Displayed' = BackendView]_vars

(***************************************************************************)
(* Claims on SpecRollback.                                                 *)
(***************************************************************************)
\* The view handles the failure of the write of an order: the rest of
\* updateStatus or handleCompleteTask after a rejected update.
RolledBack(write) ==
  /\ BagIn(write, writes)
  /\ write.phase \in {"error", "thrown"}
  /\ writes' = Take(writes, write)

LocalEntry(rows, id) == {o \in rows : o.id = id}

\* C24: the rollback of a failed write of an order leaves the local entry of
\* every other order as it was just before the rollback.
C24_RollbackTouchesOneOrder ==
  [][\A write \in BagToSet(writes) :
       RolledBack(write) =>
         \A id \in TwoOrders \ {write.id} :
           LocalEntry(Displayed', id) = LocalEntry(Displayed, id)]_vars

(***************************************************************************)
(* Claims on SpecOptimistic.                                               *)
(***************************************************************************)
\* handleUpdateStock has made its optimistic update.
OptimisticUpdateMade == stockCall.pc = "idle" /\ stockCall'.pc = "write_sent"

\* The inventory entries of a product other than the entry of the location
\* and size of the form.
OtherEntries(product, form) ==
  {i \in product.inventory :
     ~(i.location_id = form.location_id /\ i.size_name = OrNull(form.size_name))}

\* C26: the optimistic update of handleUpdateStock leaves every inventory
\* entry other than that of the edited location and size as it was, for a
\* positive quantity and for quantity 0.
C26_OptimisticUpdateTouchesOneEntry ==
  [][OptimisticUpdateMade =>
       \A p \in invProducts : \A q \in invProducts' :
         OtherEntries(q, stockForm) = OtherEntries(p, stockForm)]_vars

====
